---- MODULE Spec2Model ----
(***************************************************************************)
(* repack-logs-mcp: the in-memory LogStore, the LogWatcher that tails the  *)
(* Re.Pack log file, the RuntimeServer that accepts posted runtime logs,   *)
(* and the MCP tools that query them.                                      *)
(*                                                                         *)
(* JavaScript strings are sequences of one-character strings, JavaScript   *)
(* values are tagged records, and objects are functions from key to value. *)
(***************************************************************************)
EXTENDS Integers, Sequences, FiniteSets, TLC

VARIABLES
    \* LogStore
    logs,          \* LogStore.logs
    maxSize,       \* LogStore.maxSize
    \* the log file and what writes it
    file,          \* [exists, content]: the file at LogWatcher.filePath
    writes,        \* number of writes, replacements and deletions so far
    nextId,        \* identity of the next line written to the file
    \* LogWatcher
    lastPosition,  \* LogWatcher.lastPosition
    watching,      \* LogWatcher.watching
    watcher,       \* LogWatcher.watcher: index in subs of the FSWatcher, 0 for null
    subs,          \* every FSWatcher created: [closed, queue of notifications]
    cycles,        \* the readNewContent calls in flight
    stopping,      \* number of stop() calls awaiting watcher.close()
    calls,         \* [start, stop, serverStop]: number of calls so far of start(),
                   \* of stop(), and of RuntimeServer.stop(); stoppedAt: the
                   \* number of start() calls there were when a stop() last
                   \* resolved, -1 when none has
    \* the last call of LogStore.get, of LogStore.getErrors or of a tool
    filter,        \* its LogFilter, or the call and its arguments
    result,        \* what it returned
    \* history
    added,         \* every entry handed to LogStore.add since the last clear()
    origins,       \* where each entry of logs came from, entry by entry
    history,       \* where each entry ever handed to LogStore.add came from
    atStart,       \* the lines a start() found in the file at its initial read
    \* RuntimeServer
    port,          \* RuntimeServer.port
    configPort,    \* options.port, as configured
    occupied,      \* the ports held by other programs
    server,        \* "none", "binding", "listening", "closed", "failed" or "crashed"
    bound,         \* the port the listener is bound to, 0 for none
    inflight,      \* the requests whose body is still coming in
    responses,     \* the responses sent so far
    closing,       \* number of RuntimeServer.stop() calls awaiting server.close()
    \* the client logger, in the application
    logBuffer,     \* logBuffer
    flushTimer,    \* flushTimer: the id setTimeout returned, 0 for null
    timers,        \* the ids of the timeouts that are pending
    timersMade,    \* number of setTimeout calls so far
    fetches,       \* every fetch() so far: [path, logs, outcome, raised]
    buffered,      \* every entry ever pushed to logBuffer, in the order of the pushes
    console,       \* what console.log, info, warn, error and debug are bound to
    consoleCapureEnabled,  \* consoleCapureEnabled
    consoleCall,   \* the last call of a console method: [method, capturing, kept, originals]
    appCalls,      \* number of calls of a logger method or of a console method
    urls           \* [timer, entry]: the serverUrl in the callback of each timeout
                   \* made so far, and the serverUrl of the logger or of the
                   \* capture that pushed each entry of buffered

storeVars   == <<logs, maxSize>>
fileVars    == <<file, writes, nextId>>
watcherVars == <<lastPosition, watching, watcher, subs, cycles, stopping, calls>>
queryVars   == <<filter, result>>
ghostVars   == <<added, origins, history, atStart>>
serverVars  == <<port, configPort, occupied, server, bound, inflight, responses, closing>>
clientVars  == <<logBuffer, flushTimer, timers, timersMade, fetches, buffered,
                 console, consoleCapureEnabled, consoleCall, appCalls, urls>>
vars == <<logs, maxSize, file, writes, nextId,
          lastPosition, watching, watcher, subs, cycles, stopping, calls,
          filter, result, added, origins, history, atStart,
          port, configPort, occupied, server, bound, inflight, responses, closing,
          logBuffer, flushTimer, timers, timersMade, fetches, buffered,
          console, consoleCapureEnabled, consoleCall, appCalls, urls>>

----------------------------------------------------------------------------
(* Bounds of the model *)

\* largest configured capacity (REPACK_MAX_LOGS) the model draws
MaxCapacity == 2
\* number of LogStore.add calls after which the model stops adding
MaxAdds == 4
\* longest store content drawn for a query
MaxStored == 3
\* number of writes, replacements and deletions of the log file
MaxWrites == 2
\* number of start() calls, and of stop() calls
MaxCalls == 2
\* number of readNewContent calls in flight at once
MaxCycles == 2
\* number of requests posted to the RuntimeServer
MaxPosts == 2
\* the last port there is (65535), scaled down
MaxPort == 4

\* DEFAULT_MAX_LOGS
DefaultMaxLogs == 1000
\* DEFAULT_RUNTIME_PORT
DefaultRuntimePort == 9090

----------------------------------------------------------------------------
(* JavaScript strings *)

UpperChars == <<"A","B","C","D","E","F","G","H","I","J","K","L","M",
                "N","O","P","Q","R","S","T","U","V","W","X","Y","Z">>
LowerChars == <<"a","b","c","d","e","f","g","h","i","j","k","l","m",
                "n","o","p","q","r","s","t","u","v","w","x","y","z">>

ToLowerChar(c) ==
    IF \E i \in DOMAIN UpperChars : UpperChars[i] = c
    THEN LowerChars[CHOOSE i \in DOMAIN UpperChars : UpperChars[i] = c]
    ELSE c

\* String.prototype.toLowerCase
ToLowerCase(s) == [i \in DOMAIN s |-> ToLowerChar(s[i])]

\* String.prototype.includes
Includes(s, sub) ==
    \E i \in 0..(Len(s) - Len(sub)) : SubSeq(s, i + 1, i + Len(sub)) = sub

Min(a, b) == IF a < b THEN a ELSE b
Max(a, b) == IF a > b THEN a ELSE b

\* Array.prototype.slice(start) / String.prototype.slice(start): a negative
\* start counts from the end; -0 is 0.
JsSlice(a, start) ==
    LET len == Len(a)
        k   == IF start < 0 THEN Max(len + start, 0) ELSE Min(start, len)
    IN  SubSeq(a, k + 1, len)

----------------------------------------------------------------------------
(* JavaScript values *)

Undefined == [t |-> "undefined"]
Null      == [t |-> "null"]
Str(s)    == [t |-> "string", s |-> s]
Num(n)    == [t |-> "number", n |-> n]
Obj(o)    == [t |-> "object", o |-> o]
Arr(a)    == [t |-> "array", a |-> a]

IsString(v) == v.t = "string"

\* the operand test of ??
Nullish(v) == v.t \in {"undefined", "null"}

\* ToBoolean
Truthy(v) ==
    CASE v.t = "undefined" -> FALSE
      [] v.t = "null"      -> FALSE
      [] v.t = "string"    -> Len(v.s) > 0
      [] v.t = "number"    -> v.n # 0
      [] OTHER             -> TRUE

\* a ?? b
Coalesce(a, b) == IF Nullish(a) THEN b ELSE a

\* o.k on a plain object given as a function from keys to values
Prop(o, k) == IF k \in DOMAIN o THEN o[k] ELSE Undefined

\* { ...a, ...b }
Spread(a, b) ==
    [k \in DOMAIN a \cup DOMAIN b |-> IF k \in DOMAIN b THEN b[k] ELSE a[k]]

----------------------------------------------------------------------------
(* Date *)

\* The timestamp strings of the model and the instants new Date(s) gives
\* them; every other string is an Invalid Date.  "1" and "01" are two
\* spellings of one instant.
DateTable == << <<"1">>, <<"0","1">>, <<"2">>, <<"3">> >>
DateMs    == <<   1,        1,          2,       3     >>

\* new Date(value): [valid, ms].  A number is taken as the milliseconds,
\* null as 0, a string is parsed, anything else is an Invalid Date.
NewDate(v) ==
    CASE v.t = "number" -> [valid |-> TRUE, ms |-> v.n]
      [] v.t = "null"   -> [valid |-> TRUE, ms |-> 0]
      [] v.t = "string" /\ (\E i \in DOMAIN DateTable : DateTable[i] = v.s) ->
            [valid |-> TRUE,
             ms |-> DateMs[CHOOSE i \in DOMAIN DateTable : DateTable[i] = v.s]]
      [] OTHER -> [valid |-> FALSE, ms |-> 0]

\* a >= b on two Dates: false when either is an Invalid Date (NaN)
DateGE(a, b) == a.valid /\ b.valid /\ a.ms >= b.ms

----------------------------------------------------------------------------
(* LogStore *)

\* an add that keeps the store in the order of the timestamps: the entry goes
\* before the last one when that one is later
LogStoreAddByTime(store, size, entry) ==
    LET last   == IF store = <<>> THEN entry ELSE store[Len(store)]
        pushed == IF /\ store # <<>>
                     /\ DateGE(NewDate(Prop(last, "timestamp")),
                               NewDate(Prop(entry, "timestamp")))
                     /\ Prop(last, "timestamp") # Prop(entry, "timestamp")
                  THEN SubSeq(store, 1, Len(store) - 1) \o <<entry, last>>
                  ELSE Append(store, entry)
    IN  IF Len(pushed) > size THEN JsSlice(pushed, -size) ELSE pushed

\* LogStore.add
LogStoreAdd(store, size, entry) ==
    LET pushed == Append(store, entry)
    IN  IF Len(pushed) > size THEN JsSlice(pushed, -size) ELSE pushed

\* LogStore.addMany: add, entry by entry
RECURSIVE LogStoreAddMany(_, _, _)
LogStoreAddMany(store, size, entries) ==
    IF entries = <<>> THEN store
    ELSE LogStoreAddMany(LogStoreAdd(store, size, Head(entries)), size, Tail(entries))

(* LogStore.get.  A call either returns a list or throws (a TypeError of a
   callback on a field that is not a string). *)

Returned(v) == [ok |-> TRUE, v |-> v]
Threw       == [ok |-> FALSE, v |-> <<>>]

\* filter.types && filter.types.length > 0
TypesSet(f) == Truthy(f.types) /\ Len(f.types.a) > 0

\* filter.types.includes(log.type)
TypeMatches(f, log) ==
    \E i \in DOMAIN f.types.a : f.types.a[i] = Prop(log, "type")

\* a since filter that an Invalid Date passes
SinceMatchesOrInvalid(f, log) ==
    \/ ~NewDate(Prop(log, "timestamp")).valid
    \/ DateGE(NewDate(Prop(log, "timestamp")), NewDate(f.since))

\* new Date(log.timestamp) >= new Date(filter.since)
SinceMatches(f, log) == DateGE(NewDate(Prop(log, "timestamp")), NewDate(f.since))

\* v?.toLowerCase().includes(needle): "throws" when v is neither nullish nor
\* a string, otherwise whether it matched
OptIncludes(v, needle) ==
    CASE Nullish(v)  -> "no"
      [] IsString(v) -> IF Includes(ToLowerCase(v.s), needle) THEN "yes" ELSE "no"
      [] OTHER       -> "throws"

\* v.toLowerCase().includes(needle): also throws on a nullish v
MustIncludes(v, needle) ==
    IF IsString(v)
    THEN (IF Includes(ToLowerCase(v.s), needle) THEN "yes" ELSE "no")
    ELSE "throws"

IssuerMatches(f, log) == OptIncludes(Prop(log, "issuer"), ToLowerCase(f.issuer.s))

\* A search that looks at the message alone.
SearchMessageOnly(f, log) ==
    MustIncludes(Prop(log, "message"), ToLowerCase(f.search.s))

\* message || file || request, left to right, stopping at the first match
SearchMatches(f, log) ==
    LET needle == ToLowerCase(f.search.s)
        m == MustIncludes(Prop(log, "message"), needle)
        fl == OptIncludes(Prop(log, "file"), needle)
        rq == OptIncludes(Prop(log, "request"), needle)
    IN  IF m # "no" THEN m
        ELSE IF fl # "no" THEN fl
        ELSE rq

\* The entries of a list
Range(a) == {a[i] : i \in DOMAIN a}

\* Array.prototype.filter with a callback that may throw; verdict gives the
\* callback's outcome on each entry of the list
FilterBy(r, verdict) ==
    IF ~r.ok THEN r
    ELSE IF \E log \in Range(r.v) : verdict[log] = "throws" THEN Threw
    ELSE Returned(SelectSeq(r.v, LAMBDA log : verdict[log] = "yes"))

YesNo(b) == IF b THEN "yes" ELSE "no"

\* filter.limit && filter.limit > 0
LimitSet(f) == Truthy(f.limit) /\ f.limit.n > 0

\* A limit that keeps the first filter.limit entries: slice(0, limit).
ApplyLimitFirst(r, f) ==
    IF r.ok /\ LimitSet(f) THEN Returned(SubSeq(r.v, 1, Min(f.limit.n, Len(r.v)))) ELSE r

\* The limit step of get: the most recent filter.limit entries.
ApplyLimit(r, f) ==
    IF r.ok /\ LimitSet(f) THEN Returned(JsSlice(r.v, -f.limit.n)) ELSE r

LogStoreGet(store, f) ==
    LET r0 == Returned(store)
        r1 == IF TypesSet(f)
              THEN FilterBy(r0, [log \in Range(r0.v) |-> YesNo(TypeMatches(f, log))])
              ELSE r0
        r2 == IF Truthy(f.since)
              THEN FilterBy(r1, [log \in Range(r1.v) |-> YesNo(SinceMatches(f, log))])
              ELSE r1
        r3 == IF Truthy(f.issuer)
              THEN FilterBy(r2, [log \in Range(r2.v) |-> IssuerMatches(f, log)])
              ELSE r2
        r4 == IF Truthy(f.search)
              THEN FilterBy(r3, [log \in Range(r3.v) |-> SearchMatches(f, log)])
              ELSE r3
    IN  ApplyLimit(r4, f)

\* a getErrors that asks for the errors alone
LogStoreGetErrorsOnly(store, limit) ==
    LogStoreGet(store, [types |-> Arr(<<Str(<<"e","r","r","o","r">>)>>),
                        since |-> Undefined, issuer |-> Undefined,
                        search |-> Undefined, limit |-> limit])

\* LogStore.getErrors
LogStoreGetErrors(store, limit) ==
    LogStoreGet(store, [types |-> Arr(<<Str(<<"e","r","r","o","r">>),
                                         Str(<<"w","a","r","n">>)>>),
                        since |-> Undefined, issuer |-> Undefined,
                        search |-> Undefined, limit |-> limit])

\* LogStore.countByType
CountByType(store, type) ==
    Len(SelectSeq(store, LAMBDA log : Prop(log, "type") = type))

\* LogStore.count
Count(store) == Len(store)

\* LogStore.lastTimestamp
LastTimestamp(store) ==
    IF Len(store) = 0 THEN Null ELSE Prop(store[Len(store)], "timestamp")

----------------------------------------------------------------------------
(* LogWatcher: a line of the log file to a LogEntry *)

\* The six values of LogType
TError    == Str(<<"e","r","r","o","r">>)
TWarn     == Str(<<"w","a","r","n">>)
TInfo     == Str(<<"i","n","f","o">>)
TDebug    == Str(<<"d","e","b","u","g">>)
TSuccess  == Str(<<"s","u","c","c","e","s","s">>)
TProgress == Str(<<"p","r","o","g","r","e","s","s">>)
LogType   == {TInfo, TWarn, TError, TDebug, TSuccess, TProgress}

\* JSON.parse of a text that is not JSON throws
BadJson == [t |-> "invalid"]

\* a function that returned null (parseLine) or threw into its caller's catch
NoEntry == [ok |-> FALSE]
AnEntry(e) == [ok |-> TRUE, e |-> e]

\* a normalizeType without the aliases err, trace and done
NormalizeTypeNoAlias(type) ==
    LET normalized == ToLowerCase(type)
    IN  IF Includes(normalized, TError.s) THEN TError
        ELSE IF Includes(normalized, TWarn.s) THEN TWarn
        ELSE IF Includes(normalized, TDebug.s) THEN TDebug
        ELSE IF Includes(normalized, TSuccess.s) THEN TSuccess
        ELSE IF Includes(normalized, TProgress.s) THEN TProgress
        ELSE TInfo

\* LogWatcher.normalizeType
NormalizeType(type) ==
    LET normalized == ToLowerCase(type)
    IN  IF Includes(normalized, TError.s) \/ normalized = <<"e","r","r">> THEN TError
        ELSE IF Includes(normalized, TWarn.s) THEN TWarn
        ELSE IF Includes(normalized, TDebug.s) \/ normalized = <<"t","r","a","c","e">> THEN TDebug
        ELSE IF Includes(normalized, TSuccess.s) \/ normalized = <<"d","o","n","e">> THEN TSuccess
        ELSE IF Includes(normalized, TProgress.s) THEN TProgress
        ELSE TInfo

\* parsed.k, for parsed the result of JSON.parse: undefined on a primitive
\* or an array (the model's keys are never array indices or "length")
JsonProp(parsed, k) == IF parsed.t = "object" THEN Prop(parsed.o, k) ELSE Undefined

\* { ...parsed }: the own enumerable properties; none for a number, and the
\* model spreads no string or array
OwnProps(parsed) == IF parsed.t = "object" THEN parsed.o ELSE <<>>

\* LogWatcher.parseLine, given JSON.parse(line) and new Date().toISOString()
ParseLine(parsed, now) ==
    IF parsed = BadJson THEN NoEntry               \* JSON.parse threw
    ELSE IF parsed = Null THEN NoEntry             \* parsed.message threw
    ELSE IF ~Truthy(JsonProp(parsed, "message")) /\ ~Truthy(JsonProp(parsed, "msg"))
    THEN NoEntry
    ELSE LET type == Coalesce(JsonProp(parsed, "type"),
                              Coalesce(JsonProp(parsed, "level"), TInfo))
         IN  IF ~IsString(type) THEN NoEntry       \* type.toLowerCase threw
             ELSE AnEntry(Spread(
                 [k \in {"timestamp", "type", "message", "issuer", "request",
                         "file", "loader", "stack", "duration"} |->
                    CASE k = "timestamp" ->
                            Coalesce(JsonProp(parsed, "timestamp"),
                                     Coalesce(JsonProp(parsed, "time"), now))
                      [] k = "type" -> NormalizeType(type.s)
                      [] k = "message" ->
                            Coalesce(JsonProp(parsed, "message"),
                                     Coalesce(JsonProp(parsed, "msg"), Str(<<>>)))
                      [] k = "issuer" ->
                            Coalesce(JsonProp(parsed, "issuer"),
                                     Coalesce(JsonProp(parsed, "source"),
                                              JsonProp(parsed, "name")))
                      [] k = "request" -> JsonProp(parsed, "request")
                      [] k = "file" ->
                            Coalesce(JsonProp(parsed, "file"), JsonProp(parsed, "filename"))
                      [] k = "loader" -> JsonProp(parsed, "loader")
                      [] k = "stack" -> JsonProp(parsed, "stack")
                      [] k = "duration" -> JsonProp(parsed, "duration")],
                 OwnProps(parsed)))

----------------------------------------------------------------------------
(* The entries and filters the model draws *)

\* A LogEntry with the fields LogStore.get reads; the others are absent.
LogEntry(timestamp, type, message, issuer, fileName, request) ==
    [k \in {"timestamp", "type", "message", "issuer", "file", "request"} |->
        CASE k = "timestamp" -> timestamp
          [] k = "type"      -> type
          [] k = "message"   -> message
          [] k = "issuer"    -> issuer
          [] k = "file"      -> fileName
          [] k = "request"   -> request]

EntryPool ==
    { LogEntry(Str(<<"2">>), TError, Str(<<"A","b">>), Str(<<"W","e","b">>),
               Undefined, Undefined),
      LogEntry(Str(<<"0","1">>), TWarn, Str(<<"c">>), Undefined,
               Str(<<"x","A">>), Undefined),
      LogEntry(Str(<<"3">>), TInfo, Str(<<"b">>), Str(<<"a","p","p">>),
               Undefined, Str(<<"b","a">>)),
      LogEntry(Str(<<"n","o","w">>), TError, Str(<<"c","d">>), Str(<<"w">>),
               Undefined, Undefined) }

\* Every list of at most n members of S
SeqsUpTo(S, n) == UNION { [1..k -> S] : k \in 0..n }

\* A LogFilter; a field that is not given is undefined
FilterPool ==
    [ types  : {Undefined, Arr(<<>>), Arr(<<TError>>), Arr(<<TWarn, TError>>)},
      since  : {Undefined, Str(<<"1">>), Str(<<"3">>)},
      issuer : {Undefined, Str(<<"W">>)},
      search : {Undefined, Str(<<"A">>)},
      limit  : {Undefined, Num(0), Num(1), Num(2)} ]

NoFilter == [types |-> Undefined, since |-> Undefined, issuer |-> Undefined,
             search |-> Undefined, limit |-> Undefined]

\* before any get call
NoResult == [none |-> TRUE]

\* an entry handed to the store by a caller of LogStore itself
ByCaller == [src |-> "caller"]

\* no log file yet, nothing written
NoFile ==
    /\ file = [exists |-> FALSE, content |-> <<>>]
    /\ writes = 0
    /\ nextId = 1

\* One call of readNewContent.  pc is where it is:
\*   "free"      no call in this slot
\*   "returned"  it returned at once (no file); the start() that awaits it
\*               has not resumed yet
\*   "stat"      awaiting stat, which has not looked at the file yet
\*   "statDone"  awaiting stat, which has looked (size, or err)
\*   "read"      awaiting readFile, which has not read the file yet
\*   "readDone"  awaiting readFile, which has read (content, or err)
\* owner is "start" when start() awaits the call, "event" for a handler.
\* reset tells that its stat found the file smaller than lastPosition.
Cycle(pc, owner, err, size, content, reset) ==
    [pc |-> pc, owner |-> owner, err |-> err, size |-> size, content |-> content,
     reset |-> reset]
Free == Cycle("free", "none", FALSE, 0, <<>>, FALSE)

\* new LogWatcher(filePath, store)
WatcherInit ==
    /\ lastPosition = 0
    /\ watching = FALSE
    /\ watcher = 0
    /\ subs = <<>>
    /\ cycles = [i \in 1..MaxCycles |-> Free]
    /\ stopping = 0
    /\ calls = [start |-> 0, stop |-> 0, serverStop |-> 0, stoppedAt |-> -1]

\* new RuntimeServer({port, store}) with the default port
\* the methods of console that the client module keeps and patches
Methods == {"log", "info", "warn", "error", "debug"}

\* originalConsole.log and the others: the functions console had when the
\* client module was loaded
Original(method) == [fn |-> "original", of |-> method]

\* before any call of a console method
NoCall == [method |-> "none", capturing |-> FALSE, kept |-> FALSE, originals |-> 0]

\* the client module has been loaded and nothing has been logged
ClientInit ==
    /\ logBuffer = <<>>
    /\ flushTimer = 0
    /\ timers = {}
    /\ timersMade = 0
    /\ fetches = <<>>
    /\ buffered = <<>>
    /\ console = [m \in Methods |-> Original(m)]
    /\ consoleCapureEnabled = FALSE
    /\ consoleCall = NoCall
    /\ appCalls = 0
    /\ urls = [timer |-> <<>>, entry |-> <<>>]

ServerInit ==
    /\ configPort = DefaultRuntimePort
    /\ port = DefaultRuntimePort
    /\ occupied = {}
    /\ server = "none"
    /\ bound = 0
    /\ inflight = {}
    /\ responses = <<>>
    /\ closing = 0
    /\ ClientInit

----------------------------------------------------------------------------
(* LogStore on its own: add, addMany, clear *)

\* new LogStore(config.maxLogs), maxLogs = parseInt(REPACK_MAX_LOGS)
StoreInit ==
    /\ logs = <<>>
    /\ maxSize \in 0..MaxCapacity
    /\ added = <<>> /\ origins = <<>> /\ history = <<>> /\ atStart = {}
    /\ filter = NoFilter
    /\ result = NoResult
    /\ NoFile /\ WatcherInit /\ ServerInit

\* store.add(entry)
StoreAdd ==
    /\ Len(history) < MaxAdds
    /\ \E entry \in EntryPool :
          /\ logs' = LogStoreAdd(logs, maxSize, entry)
          /\ origins' = LogStoreAdd(origins, maxSize, ByCaller)
          /\ added' = Append(added, entry)
          /\ history' = Append(history, ByCaller)
    /\ UNCHANGED <<maxSize, atStart, fileVars, watcherVars, queryVars, serverVars, clientVars>>

\* store.addMany(entries)
StoreAddMany ==
    /\ \E entries \in SeqsUpTo(EntryPool, 2) :
          /\ Len(history) + Len(entries) <= MaxAdds
          /\ logs' = LogStoreAddMany(logs, maxSize, entries)
          /\ origins' = LogStoreAddMany(origins, maxSize, [i \in DOMAIN entries |-> ByCaller])
          /\ added' = added \o entries
          /\ history' = history \o [i \in DOMAIN entries |-> ByCaller]
    /\ UNCHANGED <<maxSize, atStart, fileVars, watcherVars, queryVars, serverVars, clientVars>>

\* store.clear()
StoreClear ==
    /\ logs' = <<>>
    /\ origins' = <<>>
    /\ added' = <<>>
    /\ UNCHANGED <<maxSize, history, atStart, fileVars, watcherVars, queryVars, serverVars, clientVars>>

StoreNext == StoreAdd \/ StoreAddMany \/ StoreClear

SpecStore == StoreInit /\ [][StoreNext]_vars

----------------------------------------------------------------------------
(* LogStore.get as a function of the store content and the filter *)

GetInit ==
    /\ logs \in SeqsUpTo(EntryPool, MaxStored)
    /\ maxSize = DefaultMaxLogs
    /\ added = logs
    /\ origins = [i \in DOMAIN logs |-> ByCaller]
    /\ history = origins
    /\ atStart = {}
    /\ filter \in FilterPool
    /\ result = NoResult
    /\ NoFile /\ WatcherInit /\ ServerInit

\* store.get(filter)
StoreGet ==
    /\ result = NoResult
    /\ result' = LogStoreGet(logs, filter)
    /\ UNCHANGED <<storeVars, fileVars, watcherVars, ghostVars, serverVars, clientVars, filter>>

SpecGet == GetInit /\ [][StoreGet]_vars

----------------------------------------------------------------------------
(* The log file: its text and what LogWatcher.readNewContent makes of it *)

\* The kinds a source record is given: the strings below, and none at all
KindPool == <<
    Str(<<"e","r","r">>),
    Str(<<"E","R","R","O","R">>),
    Str(<<"w","a","r","n","i","n","g">>),
    Str(<<"W","A","R","N">>),
    Str(<<"t","r","a","c","e">>),
    Str(<<"d","o","n","e">>),
    Str(<<"p","r","o","g","r","e","s","s">>),
    Str(<<"g","a","r","b","a","g","e">>),
    Str(<<>>),
    Str(<<"w","a","r","n","-","e","r","r","o","r">>),
    Undefined >>

\* the field of a line that carries the kind, and the one that carries the time
KindKeys == <<"type", "level">>
TimeKeys == <<"timestamp", "time", "none">>

\* the line {"msg":"k", <kindKey>:<kind>, <timeKey>:"1"}; an undefined kind
\* and the time key "none" leave the field out
SourceLine(kind, kindKey, timeKey) ==
    Obj([k \in {"msg"} \cup (IF kind = Undefined THEN {} ELSE {kindKey})
                       \cup (IF timeKey = "none" THEN {} ELSE {timeKey}) |->
           CASE k = "msg"   -> Str(<<"k">>)
             [] k = kindKey -> kind
             [] k = timeKey -> Str(<<"1">>)])

\* every such line: each kind under each kind key with each time key
SourceLines ==
    [n \in 1..(Len(KindPool) * 6) |->
       SourceLine(KindPool[(n - 1) \div 6 + 1],
                  KindKeys[((n - 1) % 6) \div 3 + 1],
                  TimeKeys[((n - 1) % 3) + 1])]

\* The lines a writer may put in the file, as what JSON.parse makes of them.
\*   1  {"message":"m1","type":"ERR"}
\*   2  {"msg":"ok","level":"done","time":"1"}
\*   3  text that is not JSON
\*   4  {"level":"info"}
\*   5  {"msg":"up","level":30}
\*   6  {"message":"build ok","level":"done"}
\*   7  {"message":5}
\*   8  {"message":"ok","issuer":7}
\*   9  {"message":"ok","request":7}
\*   10 and on: SourceLines
QueryLines == <<
    Obj([k \in {"message"} |-> Num(5)]),
    Obj([k \in {"message", "issuer"} |->
           IF k = "message" THEN Str(<<"o","k">>) ELSE Num(7)]),
    Obj([k \in {"message", "request"} |->
           IF k = "message" THEN Str(<<"o","k">>) ELSE Num(7)]) >>

LinePool == (<<
    Obj([k \in {"message", "type"} |->
           IF k = "message" THEN Str(<<"m","1">>) ELSE Str(<<"E","R","R">>)]),
    Obj([k \in {"msg", "level", "time"} |->
           CASE k = "msg"   -> Str(<<"o","k">>)
             [] k = "level" -> Str(<<"d","o","n","e">>)
             [] k = "time"  -> Str(<<"1">>)]),
    BadJson,
    Obj([k \in {"level"} |-> TInfo]),
    Obj([k \in {"msg", "level"} |->
           IF k = "msg" THEN Str(<<"u","p">>) ELSE Num(30)]),
    Obj([k \in {"message", "level"} |->
           IF k = "message" THEN Str(<<"b","u","i","l","d"," ","o","k">>)
           ELSE Str(<<"d","o","n","e">>)]) >>) \o QueryLines \o SourceLines

\* The text of the file is a sequence of characters.  The text of one line is
\* cut in two parts, so that a writer can be seen half-way through a line;
\* every character is one byte, so that the size of the file is Len(content).
\* id tells the lines apart, k is the line's place in LinePool.
Part(id, k, part) == [id |-> id, k |-> k, part |-> part]
NL == Part(0, 0, 0)
LineText(id, k) == <<Part(id, k, 1), Part(id, k, 2), NL>>

\* JSON.parse(line): the text of one whole line and nothing else parses to
\* what the line says; any other cut of the text is not JSON
JsonParse(line) ==
    IF /\ Len(line) = 2
       /\ line[1].part = 1 /\ line[2].part = 2
       /\ line[1].id = line[2].id
    THEN LinePool[line[1].k]
    ELSE BadJson

\* the place of the first '\n' of s, 0 when it has none
FirstNL(s) ==
    IF \E i \in DOMAIN s : s[i] = NL
    THEN CHOOSE i \in DOMAIN s : s[i] = NL /\ \A j \in 1..(i - 1) : s[j] # NL
    ELSE 0

\* s.split('\n')
RECURSIVE Split(_)
Split(s) ==
    LET i == FirstNL(s)
    IN  IF i = 0 THEN <<s>>
        ELSE <<SubSeq(s, 1, i - 1)>> \o Split(SubSeq(s, i + 1, Len(s)))

\* line.trim() is truthy: no character of the model is white space but '\n'
TrimTruthy(line) == Len(line) > 0

\* newContent.split('\n').filter(line => line.trim())
Lines(newContent) == SelectSeq(Split(newContent), TrimTruthy)

\* where an entry made from a line of the file came from
FromLine(line) == [src |-> "file", id |-> line[1].id]

\* the loop over lines: the entries it hands to store.add, each with the line
\* it came from
RECURSIVE ParseLines(_, _)
ParseLines(lines, now) ==
    IF lines = <<>> THEN <<>>
    ELSE LET entry == ParseLine(JsonParse(Head(lines)), now)
         IN  (IF entry.ok THEN <<[e |-> entry.e, from |-> FromLine(Head(lines))]>>
              ELSE <<>>)
             \o ParseLines(Tail(lines), now)

\* new Date().toISOString(), at the instants the model lets the clock show
NowPool == {Str(<<"3">>)}

\* the file is there with this text
FileOf(content) == [exists |-> TRUE, content |-> content]
Absent == [exists |-> FALSE, content |-> <<>>]

\* the writer stopped half-way through a line
HalfWritten ==
    /\ file.exists
    /\ Len(file.content) > 0
    /\ file.content[Len(file.content)].part = 1

----------------------------------------------------------------------------
(* LogWatcher: start, stop, readNewContent and the three notifications *)

FreeSlots == {i \in DOMAIN cycles : cycles[i].pc = "free"}
FirstFree == CHOOSE i \in FreeSlots : \A j \in FreeSlots : i <= j

\* a start() whose await has been satisfied runs before any other callback
Resuming == \E i \in DOMAIN cycles : cycles[i].pc = "returned"

\* watch(filePath, ...) with its three handlers, and watching = true
Install ==
    /\ subs' = Append(subs, [closed |-> FALSE, queue |-> <<>>])
    /\ watcher' = Len(subs) + 1
    /\ watching' = TRUE

\* readNewContent returns to its caller: start() goes on to install the
\* watch, a handler has nothing left to do
Return(i) ==
    /\ cycles' = [cycles EXCEPT ![i] = Free]
    /\ IF cycles[i].owner = "start" THEN Install
       ELSE UNCHANGED <<watching, watcher, subs>>

\* readNewContent up to its first await
ReadNewContentCall(owner) ==
    IF ~file.exists
    THEN IF owner = "start"
         THEN cycles' = [cycles EXCEPT ![FirstFree] = Cycle("returned", owner, FALSE, 0, <<>>, FALSE)]
         ELSE UNCHANGED cycles
    ELSE cycles' = [cycles EXCEPT ![FirstFree] = Cycle("stat", owner, FALSE, 0, <<>>, FALSE)]

\* start()
StartCall ==
    /\ calls.start < MaxCalls
    /\ calls' = [calls EXCEPT !.start = @ + 1]
    /\ IF watching THEN UNCHANGED cycles
       ELSE FreeSlots # {} /\ ReadNewContentCall("start")
    /\ UNCHANGED <<storeVars, fileVars, lastPosition, watching, watcher, subs,
                   stopping, queryVars, serverVars, clientVars, ghostVars>>

\* start() after a readNewContent that returned at once
StartContinue ==
    \E i \in DOMAIN cycles :
        /\ cycles[i].pc = "returned"
        /\ Return(i)
        /\ UNCHANGED <<storeVars, fileVars, lastPosition, stopping, calls,
                       queryVars, serverVars, clientVars, ghostVars>>

\* stat(filePath) looks at the file
StatSys ==
    \E i \in DOMAIN cycles :
        /\ cycles[i].pc = "stat"
        /\ cycles' = [cycles EXCEPT ![i] =
                        IF file.exists
                        THEN Cycle("statDone", @.owner, FALSE, Len(file.content), <<>>, FALSE)
                        ELSE Cycle("statDone", @.owner, TRUE, 0, <<>>, FALSE)]
        /\ UNCHANGED <<storeVars, fileVars, lastPosition, watching, watcher, subs,
                       stopping, calls, queryVars, serverVars, clientVars, ghostVars>>

\* readNewContent from the end of await stat to await readFile
StatResume ==
    \E i \in DOMAIN cycles :
        /\ cycles[i].pc = "statDone"
        /\ ~Resuming
        /\ IF cycles[i].err
           THEN Return(i) /\ UNCHANGED lastPosition
           ELSE /\ lastPosition' = IF cycles[i].size < lastPosition THEN 0
                                   ELSE lastPosition
                /\ cycles' = [cycles EXCEPT ![i] =
                                Cycle("read", @.owner, FALSE, @.size, <<>>,
                                      @.size < lastPosition)]
                /\ UNCHANGED <<watching, watcher, subs>>
        /\ UNCHANGED <<storeVars, fileVars, stopping, calls, queryVars, serverVars, clientVars, ghostVars>>

\* what one readNewContent hands to store.add, given what readFile returned
NewEntries(content, position, now) == ParseLines(Lines(JsSlice(content, position)), now)

\* the lines of a text that parseLine makes entries of, read from its beginning
Records(content) ==
    LET found == NewEntries(content, 0, CHOOSE now \in NowPool : TRUE)
    IN  {found[i].from.id : i \in DOMAIN found}

\* readFile(filePath, 'utf-8') reads the file
ReadSys ==
    \E i \in DOMAIN cycles :
        /\ cycles[i].pc = "read"
        /\ cycles' = [cycles EXCEPT ![i] =
                        IF file.exists
                        THEN Cycle("readDone", @.owner, FALSE, @.size, file.content, @.reset)
                        ELSE Cycle("readDone", @.owner, TRUE, @.size, <<>>, @.reset)]
        /\ atStart' = IF cycles[i].owner = "start" /\ file.exists
                      THEN atStart \cup Records(file.content)
                      ELSE atStart
        /\ UNCHANGED <<storeVars, fileVars, lastPosition, watching, watcher, subs,
                       stopping, calls, queryVars, serverVars, clientVars, added, origins, history>>

\* store.add of each of these, in turn
AddAll(found) ==
    LET entries == [i \in DOMAIN found |-> found[i].e]
        from    == [i \in DOMAIN found |-> found[i].from]
    IN  /\ logs' = LogStoreAddMany(logs, maxSize, entries)
        /\ origins' = LogStoreAddMany(origins, maxSize, from)
        /\ added' = added \o entries
        /\ history' = history \o from
        /\ UNCHANGED <<maxSize, atStart>>

\* a readNewContent whose catch takes the size stat gave for the new offset
ReadResumeOffsetMoved ==
    \E i \in DOMAIN cycles, now \in NowPool :
        /\ cycles[i].pc = "readDone"
        /\ ~Resuming
        /\ Return(i)
        /\ IF cycles[i].err
           THEN lastPosition' = cycles[i].size /\ UNCHANGED <<storeVars, ghostVars>>
           ELSE IF JsSlice(cycles[i].content, lastPosition) = <<>>
           THEN UNCHANGED <<lastPosition, storeVars, ghostVars>>
           ELSE /\ lastPosition' = Len(cycles[i].content)
                /\ AddAll(NewEntries(cycles[i].content, lastPosition, now))
        /\ UNCHANGED <<fileVars, stopping, calls, queryVars, serverVars, clientVars>>

\* readNewContent from the end of await readFile to its end
ReadResume ==
    \E i \in DOMAIN cycles, now \in NowPool :
        /\ cycles[i].pc = "readDone"
        /\ ~Resuming
        /\ Return(i)
        /\ IF cycles[i].err \/ JsSlice(cycles[i].content, lastPosition) = <<>>
           THEN UNCHANGED <<lastPosition, storeVars, ghostVars>>
           ELSE /\ lastPosition' = Len(cycles[i].content)
                /\ AddAll(NewEntries(cycles[i].content, lastPosition, now))
        /\ UNCHANGED <<fileVars, stopping, calls, queryVars, serverVars, clientVars>>

\* stop() up to await watcher.close(); close() takes the handlers off at once
StopCall ==
    /\ calls.stop < MaxCalls
    /\ IF watcher # 0
       THEN /\ subs' = [subs EXCEPT ![watcher].closed = TRUE]
            /\ stopping' = stopping + 1
            /\ calls' = [calls EXCEPT !.stop = @ + 1]
            /\ UNCHANGED watching
       ELSE /\ watching' = FALSE
            /\ calls' = [calls EXCEPT !.stop = @ + 1, !.stoppedAt = calls.start]
            /\ UNCHANGED <<subs, stopping>>
    /\ UNCHANGED <<storeVars, fileVars, lastPosition, watcher, cycles,
                   queryVars, serverVars, clientVars, ghostVars>>

\* a stop() that takes watching = false into the if, before the await
StopContinueStillWatching ==
    /\ stopping > 0
    /\ ~Resuming
    /\ stopping' = stopping - 1
    /\ watcher' = 0
    /\ calls' = [calls EXCEPT !.stoppedAt = calls.start]
    /\ UNCHANGED <<storeVars, fileVars, lastPosition, watching, subs, cycles,
                   queryVars, serverVars, clientVars, ghostVars>>

\* stop() after await watcher.close()
StopContinue ==
    /\ stopping > 0
    /\ ~Resuming
    /\ stopping' = stopping - 1
    /\ watcher' = 0
    /\ watching' = FALSE
    /\ calls' = [calls EXCEPT !.stoppedAt = calls.start]
    /\ UNCHANGED <<storeVars, fileVars, lastPosition, subs, cycles,
                   queryVars, serverVars, clientVars, ghostVars>>

\* the next notification of an FSWatcher reaches its handler
Deliver ==
    \E s \in DOMAIN subs :
        /\ ~subs[s].closed
        /\ subs[s].queue # <<>>
        /\ ~Resuming
        /\ subs' = [subs EXCEPT ![s].queue = Tail(@)]
        /\ LET event == Head(subs[s].queue)
           IN  CASE event = "change" ->
                      /\ FreeSlots # {}
                      /\ ReadNewContentCall("event")
                      /\ UNCHANGED lastPosition
                 [] event = "add" ->
                      /\ FreeSlots # {}
                      /\ lastPosition' = 0
                      /\ ReadNewContentCall("event")
                 [] event = "unlink" ->
                      /\ lastPosition' = 0
                      /\ UNCHANGED cycles
        /\ UNCHANGED <<storeVars, fileVars, watching, watcher, stopping, calls,
                       queryVars, serverVars, clientVars, ghostVars>>

----------------------------------------------------------------------------
(* What writes the log file *)

\* the lines the writer appends while the LogWatcher is there: whole, and
\* in two halves
WholePool == {2}
HalfPool == {2}

\* chokidar tells every FSWatcher that is not closed
Notify(event) ==
    subs' = [s \in DOMAIN subs |->
               IF subs[s].closed THEN subs[s]
               ELSE [subs[s] EXCEPT !.queue = Append(@, event)]]

\* the writer appends one whole line, one of pool, creating the file if need be
WriteLineOf(pool) ==
    /\ writes < MaxWrites
    /\ ~HalfWritten
    /\ \E k \in pool :
          file' = FileOf(file.content \o LineText(nextId, k))
    /\ Notify(IF file.exists THEN "change" ELSE "add")
    /\ writes' = writes + 1
    /\ nextId' = nextId + 1
    /\ UNCHANGED <<storeVars, lastPosition, watching, watcher, cycles, stopping,
                   calls, queryVars, serverVars, clientVars, ghostVars>>

WriteLine == WriteLineOf(WholePool)

\* the writer appends the first part of a line
WriteHalf ==
    /\ writes < MaxWrites
    /\ ~HalfWritten
    /\ \E k \in HalfPool :
          file' = FileOf(Append(file.content, Part(nextId, k, 1)))
    /\ Notify(IF file.exists THEN "change" ELSE "add")
    /\ writes' = writes + 1
    /\ nextId' = nextId + 1
    /\ UNCHANGED <<storeVars, lastPosition, watching, watcher, cycles, stopping,
                   calls, queryVars, serverVars, clientVars, ghostVars>>

\* the writer appends the rest of that line
WriteRest ==
    /\ writes < MaxWrites
    /\ HalfWritten
    /\ LET half == file.content[Len(file.content)]
       IN  file' = FileOf(file.content \o <<Part(half.id, half.k, 2), NL>>)
    /\ Notify("change")
    /\ writes' = writes + 1
    /\ UNCHANGED <<storeVars, nextId, lastPosition, watching, watcher, cycles,
                   stopping, calls, queryVars, serverVars, clientVars, ghostVars>>

\* the file is truncated and written anew, or replaced by a new file; either
\* way it then holds one line
Replace ==
    /\ writes < MaxWrites
    /\ file.exists
    /\ file.content # <<>>
    /\ \E k \in WholePool : file' = FileOf(LineText(nextId, k))
    /\ Notify("change")
    /\ writes' = writes + 1
    /\ nextId' = nextId + 1
    /\ UNCHANGED <<storeVars, lastPosition, watching, watcher, cycles, stopping,
                   calls, queryVars, serverVars, clientVars, ghostVars>>

\* the file is deleted
Delete ==
    /\ writes < MaxWrites
    /\ file.exists
    /\ file' = Absent
    /\ Notify("unlink")
    /\ writes' = writes + 1
    /\ UNCHANGED <<storeVars, nextId, lastPosition, watching, watcher, cycles,
                   stopping, calls, queryVars, serverVars, clientVars, ghostVars>>

----------------------------------------------------------------------------
(* LogWatcher next to a writer of the file *)

\* the file at the time the LogWatcher is made: none, or of one or two lines
StartFiles ==
    {<<>>, LineText(1, 1),
     LineText(1, 3) \o LineText(2, 2),
     LineText(1, 4) \o LineText(2, 5)}

WatcherSpecInit ==
    /\ logs = <<>>
    /\ maxSize = DefaultMaxLogs
    /\ added = <<>> /\ origins = <<>> /\ history = <<>> /\ atStart = {}
    /\ filter = NoFilter
    /\ result = NoResult
    /\ \E text \in StartFiles :
          /\ file = IF text = <<>> THEN Absent ELSE FileOf(text)
          /\ nextId = (Len(text) \div 3) + 1
    /\ writes = 0
    /\ WatcherInit /\ ServerInit

WatcherNext ==
    \/ StartCall \/ StartContinue
    \/ StatSys \/ StatResume \/ ReadSys \/ ReadResume
    \/ StopCall \/ StopContinue
    \/ Deliver
    \/ WriteLine \/ WriteHalf \/ WriteRest \/ Replace \/ Delete

SpecWatcher == WatcherSpecInit /\ [][WatcherNext]_vars

----------------------------------------------------------------------------
(* RuntimeServer: what the two POST handlers make of a request body *)

\* String(data), as far as the bodies of the model need it
RECURSIVE StringOf(_)
StringOf(v) ==
    CASE v.t = "string"    -> v.s
      [] v.t = "null"      -> <<"n","u","l","l">>
      [] v.t = "undefined" -> <<"u","n","d","e","f","i","n","e","d">>
      [] v.t = "number"    ->
            IF v.n < 10 THEN <<ToString(v.n)>>
            ELSE StringOf(Num(v.n \div 10)) \o <<ToString(v.n % 10)>>
      [] v.t = "array"     ->
            IF v.a = <<>> THEN <<>>
            ELSE IF Len(v.a) = 1
                 THEN (IF Nullish(v.a[1]) THEN <<>> ELSE StringOf(v.a[1]))
                 ELSE (IF Nullish(v.a[1]) THEN <<>> ELSE StringOf(v.a[1]))
                      \o <<",">> \o StringOf(Arr(Tail(v.a)))
      [] OTHER             ->
            <<"[","o","b","j","e","c","t"," ","O","b","j","e","c","t","]">>

\* RuntimeServer.parseLogType
ParseLogType(type) ==
    IF Nullish(type) THEN Returned(TInfo)          \* type?.toLowerCase() is undefined
    ELSE IF ~IsString(type) THEN Threw             \* type.toLowerCase is not a function
    ELSE LET lower == ToLowerCase(type.s)
         IN  Returned(CASE lower = TError.s -> TError
                        [] lower = TWarn.s -> TWarn
                        [] lower = <<"w","a","r","n","i","n","g">> -> TWarn
                        [] lower = TDebug.s -> TDebug
                        [] lower = TSuccess.s -> TSuccess
                        [] OTHER -> TInfo)

\* RuntimeServer.handleLog up to store.add: the entry it adds, unless it throws
HandleLog(data, now) ==
    IF data = Null THEN Threw                      \* data.type of null
    ELSE LET logType == ParseLogType(JsonProp(data, "type"))
         IN  IF ~logType.ok THEN Threw
             ELSE Returned(Spread(Spread(
                    [k \in {"timestamp", "type", "message", "issuer", "file"} |->
                       CASE k = "timestamp" -> now
                         [] k = "type"      -> logType.v
                         [] k = "message"   ->
                               Coalesce(JsonProp(data, "message"), Str(StringOf(data)))
                         [] k = "issuer"    ->
                               Coalesce(JsonProp(data, "tag"), Str(<<"a","p","p">>))
                         [] k = "file"      -> JsonProp(data, "file")],
                    IF Truthy(JsonProp(data, "line"))
                    THEN [k \in {"line"} |-> JsonProp(data, "line")] ELSE <<>>),
                    IF Truthy(JsonProp(data, "data"))
                    THEN [k \in {"data"} |-> JsonProp(data, "data")] ELSE <<>>))

\* what a handler did: the status it answered with, the entries it handed to
\* store.add before that, each with its place in the request, and whether an
\* exception left the handler
Outcome(status, found, threw) == [status |-> status, found |-> found, threw |-> threw]

\* the same loop going from the last element of the list to the first
RECURSIVE HandleBatchLastFirst(_, _, _)
HandleBatchLastFirst(list, first, now) ==
    IF list = <<>> THEN [found |-> <<>>, threw |-> FALSE]
    ELSE LET n     == Len(list)
             entry == HandleLog(list[n], now)
         IN  IF ~entry.ok THEN [found |-> <<>>, threw |-> TRUE]
             ELSE LET rest == HandleBatchLastFirst(SubSeq(list, 1, n - 1), first, now)
                  IN  [found |-> <<[e |-> entry.v, idx |-> first + n - 1]>> \o rest.found,
                       threw |-> rest.threw]

\* for (const log of data.logs) this.handleLog(log): the entries added, up to
\* the first element on which handleLog throws
RECURSIVE HandleBatch(_, _, _)
HandleBatch(list, first, now) ==
    IF list = <<>> THEN [found |-> <<>>, threw |-> FALSE]
    ELSE LET entry == HandleLog(Head(list), now)
         IN  IF ~entry.ok THEN [found |-> <<>>, threw |-> TRUE]
             ELSE LET rest == HandleBatch(Tail(list), first + 1, now)
                  IN  [found |-> <<[e |-> entry.v, idx |-> first]>> \o rest.found,
                       threw |-> rest.threw]

\* the 'end' handler of POST /log
PostLogEnd(body, now) ==
    IF body = BadJson THEN Outcome(400, <<>>, FALSE)          \* JSON.parse threw
    ELSE LET entry == HandleLog(body, now)
         IN  IF entry.ok THEN Outcome(200, <<[e |-> entry.v, idx |-> 1]>>, FALSE)
             ELSE Outcome(400, <<>>, FALSE)

\* the same handler without the Array.isArray test: a logs that is no array
\* cannot be iterated
PostLogsEndUnguarded(body, now) ==
    IF body = BadJson THEN Outcome(400, <<>>, FALSE)
    ELSE IF body = Null THEN Outcome(400, <<>>, FALSE)
    ELSE IF JsonProp(body, "logs").t = "array"
         THEN LET batch == HandleBatch(JsonProp(body, "logs").a, 1, now)
              IN  Outcome(IF batch.threw THEN 400 ELSE 200, batch.found, FALSE)
         ELSE Outcome(400, <<>>, FALSE)

\* the 'end' handler of POST /logs
PostLogsEnd(body, now) ==
    IF body = BadJson THEN Outcome(400, <<>>, FALSE)          \* JSON.parse threw
    ELSE IF body = Null THEN Outcome(400, <<>>, FALSE)        \* data.logs of null
    ELSE IF JsonProp(body, "logs").t = "array"
         THEN LET batch == HandleBatch(JsonProp(body, "logs").a, 1, now)
              IN  Outcome(IF batch.threw THEN 400 ELSE 200, batch.found, FALSE)
         ELSE Outcome(200, <<>>, FALSE)

\* The bodies the model posts
ReqError == Obj([k \in {"type", "message", "tag"} |->
                   CASE k = "type"    -> TError
                     [] k = "message" -> Str(<<"m">>)
                     [] k = "tag"     -> Str(<<"T">>)])
ReqWarning == Obj([k \in {"type", "message"} |->
                   IF k = "type" THEN Str(<<"W","A","R","N","I","N","G">>)
                   ELSE Str(<<"w">>)])
ReqEmpty == Obj(<<>>)
ReqNumberType == Obj([k \in {"type", "message"} |->
                   IF k = "type" THEN Num(5) ELSE Str(<<"x">>)])
Batch(list) == Obj([k \in {"logs"} |-> list])

LogBodies == {BadJson, Null, ReqError, ReqEmpty, ReqNumberType}
LogsBodies == {BadJson, Null, ReqEmpty, Batch(Num(5)),
               Batch(Arr(<<ReqError, ReqWarning>>)),
               Batch(Arr(<<ReqWarning, Null, ReqError>>))}

----------------------------------------------------------------------------
(* RuntimeServer: requests *)

\* the number of the next request
NextRequest == Len(responses) + Cardinality(inflight) + 1

\* a request reaches the listener; its body, one of logBodies for /log and
\* one of logsBodies for /logs, is still coming in
ReceiveOf(logBodies, logsBodies) ==
    /\ server = "listening"
    /\ NextRequest <= MaxPosts
    /\ \E path \in {"/log", "/logs"} :
          \E body \in IF path = "/log" THEN logBodies ELSE logsBodies :
              inflight' = inflight \cup {[req |-> NextRequest, path |-> path, body |-> body]}
    /\ UNCHANGED <<storeVars, fileVars, watcherVars, queryVars, ghostVars,
                   port, configPort, occupied, server, bound, responses, closing, clientVars>>

Receive == ReceiveOf(LogBodies, LogsBodies)

\* where an entry made from a request came from
FromRequest(r, found) == [i \in DOMAIN found |-> [src |-> "http", req |-> r.req, idx |-> found[i].idx]]

\* an 'end' handler that yields to the scheduler after its first store.add:
\* the rest of the list is handled in a later turn
RespondYielding(r, outcome) ==
    IF Len(outcome.found) < 2
    THEN LET entries == [i \in DOMAIN outcome.found |-> outcome.found[i].e]
             from    == [i \in DOMAIN outcome.found |->
                           [src |-> "http", req |-> r.req, idx |-> outcome.found[i].idx]]
         IN  /\ logs' = LogStoreAddMany(logs, maxSize, entries)
             /\ origins' = LogStoreAddMany(origins, maxSize, from)
             /\ added' = added \o entries
             /\ history' = history \o from
             /\ inflight' = inflight \ {r}
             /\ responses' = Append(responses, [req |-> r.req, path |-> r.path,
                                                body |-> r.body, status |-> outcome.status])
             /\ server' = IF outcome.threw THEN "crashed" ELSE server
             /\ UNCHANGED <<maxSize, atStart, fileVars, watcherVars, queryVars,
                            port, configPort, occupied, bound, closing, clientVars>>
    ELSE LET first == outcome.found[1]
             from  == [src |-> "http", req |-> r.req, idx |-> first.idx]
             rest  == Batch(Arr(Tail(JsonProp(r.body, "logs").a)))
         IN  /\ logs' = LogStoreAddMany(logs, maxSize, <<first.e>>)
             /\ origins' = LogStoreAddMany(origins, maxSize, <<from>>)
             /\ added' = Append(added, first.e)
             /\ history' = Append(history, from)
             /\ inflight' = (inflight \ {r}) \cup {[r EXCEPT !.body = rest]}
             /\ UNCHANGED <<maxSize, atStart, fileVars, watcherVars, queryVars, responses,
                            server, port, configPort, occupied, bound, closing, clientVars>>

\* the 'end' handler of request r ran with this outcome
Respond(r, outcome) ==
    LET entries == [i \in DOMAIN outcome.found |-> outcome.found[i].e]
        from    == FromRequest(r, outcome.found)
    IN  /\ logs' = LogStoreAddMany(logs, maxSize, entries)
        /\ origins' = LogStoreAddMany(origins, maxSize, from)
        /\ added' = added \o entries
        /\ history' = history \o from
        /\ inflight' = inflight \ {r}
        /\ responses' = Append(responses, [req |-> r.req, path |-> r.path,
                                           body |-> r.body, status |-> outcome.status])
        /\ server' = IF outcome.threw THEN "crashed" ELSE server
        /\ UNCHANGED <<maxSize, atStart, fileVars, watcherVars, queryVars,
                       port, configPort, occupied, bound, closing, clientVars>>

\* POST /log: the body is complete
PostLog ==
    /\ server = "listening"
    /\ \E r \in inflight, now \in NowPool :
          /\ r.path = "/log"
          /\ Respond(r, PostLogEnd(r.body, now))

\* POST /logs: the body is complete
PostLogs ==
    /\ server = "listening"
    /\ \E r \in inflight, now \in NowPool :
          /\ r.path = "/logs"
          /\ Respond(r, PostLogsEnd(r.body, now))

\* RuntimeServer.start() has resolved on the default port; the LogWatcher
\* is watching a file of two lines and has just been told of it
ServerSpecInit ==
    /\ logs = <<>>
    /\ maxSize = DefaultMaxLogs
    /\ added = <<>> /\ origins = <<>> /\ history = <<>> /\ atStart = {}
    /\ filter = NoFilter
    /\ result = NoResult
    /\ file = FileOf(LineText(1, 1) \o LineText(2, 2))
    /\ writes = 0
    /\ nextId = 3
    /\ lastPosition = 0
    /\ watching = TRUE
    /\ watcher = 1
    /\ subs = <<[closed |-> FALSE, queue |-> <<>>]>>
    /\ cycles = [i \in 1..MaxCycles |->
                   IF i = 1 THEN Cycle("stat", "event", FALSE, 0, <<>>, FALSE) ELSE Free]
    /\ stopping = 0
    /\ calls = [start |-> 1, stop |-> 0, serverStop |-> 0, stoppedAt |-> -1]
    /\ configPort = DefaultRuntimePort
    /\ port = DefaultRuntimePort
    /\ occupied = {}
    /\ server = "listening"
    /\ bound = DefaultRuntimePort
    /\ inflight = {}
    /\ responses = <<>>
    /\ closing = 0
    /\ ClientInit

ServerNext ==
    \/ Receive \/ PostLog \/ PostLogs
    \/ StoreClear
    \/ StatSys \/ StatResume \/ ReadSys \/ ReadResume

SpecServer == ServerSpecInit /\ [][ServerNext]_vars

----------------------------------------------------------------------------
(* RuntimeServer: start() and the port it binds *)

\* get activePort()
ActivePort == port

\* the ports that nothing else holds
FreePorts == (1..MaxPort) \ occupied

\* start(): createServer and listen(this.port)
ServerStart ==
    /\ server = "none"
    /\ server' = "binding"
    /\ UNCHANGED <<storeVars, fileVars, watcherVars, queryVars, ghostVars,
                   port, configPort, occupied, bound, inflight, responses, closing, clientVars>>

\* an 'error' handler that goes on to the next port whatever the port
AddrInUseUnbounded ==
    /\ server = "binding"
    /\ port \in occupied \/ (port = 0 /\ FreePorts = {})
    /\ port' = port + 1
    /\ server' = "binding"
    /\ UNCHANGED <<storeVars, fileVars, watcherVars, queryVars, ghostVars,
                   configPort, occupied, bound, inflight, responses, closing, clientVars>>

\* 'error' with EADDRINUSE: this.port++, close, start() again; listen throws
\* on a port past the last one, which rejects.  listen(0) gets EADDRINUSE
\* when the system has no port left to give
AddrInUse ==
    /\ server = "binding"
    /\ port \in occupied \/ (port = 0 /\ FreePorts = {})
    /\ port' = port + 1
    /\ server' = IF port + 1 > MaxPort THEN "failed" ELSE "binding"
    /\ UNCHANGED <<storeVars, fileVars, watcherVars, queryVars, ghostVars,
                   configPort, occupied, bound, inflight, responses, closing, clientVars>>

\* the listen callback: bound to this.port, resolve()
Listening ==
    /\ server = "binding"
    /\ port \in FreePorts
    /\ bound' = port
    /\ server' = "listening"
    /\ UNCHANGED <<storeVars, fileVars, watcherVars, queryVars, ghostVars,
                   port, configPort, occupied, inflight, responses, closing, clientVars>>

\* the listen callback after listen(0): bound to a port the system chose
ListeningAnyPort ==
    /\ server = "binding"
    /\ port = 0
    /\ bound' \in FreePorts
    /\ server' = "listening"
    /\ UNCHANGED <<storeVars, fileVars, watcherVars, queryVars, ghostVars,
                   port, configPort, occupied, inflight, responses, closing, clientVars>>

\* new RuntimeServer({port: config.runtimePort, store}), for every port
\* REPACK_RUNTIME_PORT can name and every set of ports held by others
PortSpecInit ==
    /\ logs = <<>>
    /\ maxSize = DefaultMaxLogs
    /\ added = <<>> /\ origins = <<>> /\ history = <<>> /\ atStart = {}
    /\ filter = NoFilter
    /\ result = NoResult
    /\ NoFile /\ WatcherInit
    /\ configPort \in 0..MaxPort
    /\ port = configPort
    /\ occupied \in SUBSET (1..MaxPort)
    /\ server = "none"
    /\ bound = 0
    /\ inflight = {}
    /\ responses = <<>>
    /\ closing = 0
    /\ ClientInit

PortNext == ServerStart \/ AddrInUse \/ Listening \/ ListeningAnyPort

SpecPort == PortSpecInit /\ [][PortNext]_vars

\* 'error' with another code than EADDRINUSE (EACCES, ...): reject(err)
ListenError ==
    /\ server = "binding"
    /\ server' = "failed"
    /\ UNCHANGED <<storeVars, fileVars, watcherVars, queryVars, ghostVars, port,
                   configPort, occupied, bound, inflight, responses, closing, clientVars>>

\* start() with every way its listen can end
BindNext == PortNext \/ ListenError

\* the event loop runs the listen callback or the 'error' handler of a listen
\* that has ended
BindFairness ==
    /\ WF_vars(AddrInUse)
    /\ WF_vars(Listening)
    /\ WF_vars(ListeningAnyPort)

SpecBind == PortSpecInit /\ [][BindNext]_vars /\ BindFairness

----------------------------------------------------------------------------
(* One source record, written to the log file and posted by the application *)

\* the line of the log file, as JSON.parse reads it
TheLine == LinePool[file.content[1].k]

\* what createLogger posts for the same record: type, message and timestamp
\* (createEntry), the fields the record lacks left out
SourceBody(line) ==
    LET kind == Coalesce(JsonProp(line, "type"), JsonProp(line, "level"))
        time == Coalesce(JsonProp(line, "timestamp"), JsonProp(line, "time"))
    IN  Obj([k \in {"message"} \cup (IF kind = Undefined THEN {} ELSE {"type"})
                               \cup (IF time = Undefined THEN {} ELSE {"timestamp"}) |->
               CASE k = "message"   -> JsonProp(line, "msg")
                 [] k = "type"      -> kind
                 [] k = "timestamp" -> time])

\* the application posts the record, alone or as a batch of one
ReceiveSource ==
    ReceiveOf({SourceBody(TheLine)}, {Batch(Arr(<<SourceBody(TheLine)>>))})

\* new LogWatcher and a listening RuntimeServer, as main() makes them, with
\* a log file of one source line
ProducersInit ==
    /\ logs = <<>>
    /\ maxSize = DefaultMaxLogs
    /\ added = <<>> /\ origins = <<>> /\ history = <<>> /\ atStart = {}
    /\ filter = NoFilter
    /\ result = NoResult
    /\ \E n \in DOMAIN SourceLines :
          file = FileOf(LineText(1, Len(LinePool) - Len(SourceLines) + n))
    /\ writes = 0
    /\ nextId = 2
    /\ WatcherInit
    /\ configPort = DefaultRuntimePort
    /\ port = DefaultRuntimePort
    /\ occupied = {}
    /\ server = "listening"
    /\ bound = DefaultRuntimePort
    /\ inflight = {}
    /\ responses = <<>>
    /\ closing = 0
    /\ ClientInit

ProducersNext ==
    \/ StartCall
    \/ StatSys \/ StatResume \/ ReadSys \/ ReadResume
    \/ ReceiveSource \/ PostLog \/ PostLogs

SpecProducers == ProducersInit /\ [][ProducersNext]_vars

----------------------------------------------------------------------------
(* The MCP tools get_errors, clear_logs and get_runtime_logs *)

\* the number of entries get_runtime_logs asks the store for
RuntimeScanLimit == 1000
\* args.limit ?? 20 of get_errors, args.limit ?? 50 of get_runtime_logs
DefaultErrorsLimit == 20
DefaultRuntimeLimit == 50

\* buildIssuers
BuildIssuers == {Str(<<"w","e","b","p","a","c","k">>),
                 Str(<<"r","e","p","a","c","k">>),
                 Str(<<"w","a","t","c","h","e","r">>)}

\* Array.prototype.slice(0, end): a negative end counts from the end
JsSliceTo(a, end) ==
    LET len == Len(a)
        k   == IF end < 0 THEN Max(len + end, 0) ELSE Min(end, len)
    IN  SubSeq(a, 1, k)

\* the handler of get_runtime_logs up to the formatting: the entries it
\* reports, unless message.toLowerCase throws on a message that is no string
\* get_runtime_logs that does not look at args.tag
GetRuntimeLogsNoTag(store, args) ==
    LET allLogs == LogStoreGet(store, [NoFilter EXCEPT !.limit = Num(RuntimeScanLimit)]).v
        runtime == SelectSeq(allLogs, LAMBDA log :
                       Coalesce(Prop(log, "issuer"), Str(<<>>)) \notin BuildIssuers)
    IN  Returned(JsSliceTo(runtime, Coalesce(args.limit, Num(DefaultRuntimeLimit)).n))

GetRuntimeLogs(store, args) ==
    LET allLogs  == LogStoreGet(store, [NoFilter EXCEPT !.limit = Num(RuntimeScanLimit)]).v
        runtime  == SelectSeq(allLogs, LAMBDA log :
                        Coalesce(Prop(log, "issuer"), Str(<<>>)) \notin BuildIssuers)
        byTag    == IF Truthy(args.tag)
                    THEN SelectSeq(runtime, LAMBDA log : Prop(log, "issuer") = args.tag)
                    ELSE runtime
        byTypes  == IF Truthy(args.types)
                    THEN SelectSeq(byTag, LAMBDA log :
                             \E i \in DOMAIN args.types.a : args.types.a[i] = Prop(log, "type"))
                    ELSE byTag
        bySearch == IF Truthy(args.search)
                    THEN SelectSeq(byTypes, LAMBDA log :
                             IsString(Prop(log, "message")) /\
                             Includes(ToLowerCase(Prop(log, "message").s),
                                      ToLowerCase(args.search.s)))
                    ELSE byTypes
    IN  IF Truthy(args.search) /\ \E i \in DOMAIN byTypes : ~IsString(Prop(byTypes[i], "message"))
        THEN Threw
        ELSE Returned(JsSliceTo(bySearch, Coalesce(args.limit, Num(DefaultRuntimeLimit)).n))

\* The entries of the stores the tools are called on: those of EntryPool and
\* one of each build issuer
ToolEntryPool ==
    EntryPool \cup
    { LogEntry(Str(<<"1">>), TInfo, Str(<<"b","u","i","l","t">>), issuer, Undefined, Undefined) :
        issuer \in BuildIssuers }

\* a store of one entry more than get_runtime_logs asks for, all of them of
\* the application
LongStore ==
    [i \in 1..(RuntimeScanLimit + 1) |->
       LogEntry(Str(<<"1">>), TInfo, Str(<<"r">>), Str(<<"a","p","p">>), Undefined, Undefined)]

\* the arguments of the tools; a field that is not given is undefined
ErrorsArgsPool == [limit : {Undefined, Num(0), Num(1), Num(2)}]
RuntimeArgsPool ==
    [ limit  : {Undefined, Num(1), Num(2 * RuntimeScanLimit)},
      tag    : {Undefined},
      types  : {Undefined},
      search : {Undefined} ]
    \cup
    [ limit  : {Undefined},
      tag    : {Undefined, Str(<<"a","p","p">>)},
      types  : {Undefined, Arr(<<TError>>)},
      search : {Str(<<"B">>)} ]

\* a store of the default capacity with up to MaxStored entries, or one of
\* twice that capacity (REPACK_MAX_LOGS) holding LongStore
ToolsInit ==
    /\ \/ /\ logs \in SeqsUpTo(ToolEntryPool, MaxStored)
          /\ maxSize = DefaultMaxLogs
       \/ /\ logs = LongStore
          /\ maxSize = 2 * DefaultMaxLogs
    /\ added = logs
    /\ origins = [i \in DOMAIN logs |-> ByCaller]
    /\ history = origins
    /\ atStart = {}
    /\ filter = NoFilter
    /\ result = NoResult
    /\ NoFile /\ WatcherInit /\ ServerInit

\* store.getErrors(limit)
StoreGetErrors ==
    /\ \E limit \in {Undefined, Num(0), Num(1), Num(2)} :
          /\ filter' = [call |-> "getErrors", limit |-> limit]
          /\ result' = LogStoreGetErrors(logs, limit)
    /\ UNCHANGED <<storeVars, fileVars, watcherVars, ghostVars, serverVars, clientVars>>

\* the tool get_errors: store.getErrors(args.limit ?? 20)
GetErrorsTool ==
    /\ \E args \in ErrorsArgsPool :
          /\ filter' = [call |-> "get_errors", args |-> args]
          /\ result' = LogStoreGetErrors(logs, Coalesce(args.limit, Num(DefaultErrorsLimit)))
    /\ UNCHANGED <<storeVars, fileVars, watcherVars, ghostVars, serverVars, clientVars>>

\* a clear_logs that takes the count after store.clear()
ClearLogsCountAfter ==
    /\ filter' = [call |-> "clear_logs"]
    /\ result' = Returned(Num(Count(<<>>)))
    /\ logs' = <<>>
    /\ origins' = <<>>
    /\ added' = <<>>
    /\ UNCHANGED <<maxSize, history, atStart, fileVars, watcherVars, serverVars, clientVars>>

\* the tool clear_logs: count = store.count, store.clear(), and the count it
\* reports
ClearLogsTool ==
    /\ filter' = [call |-> "clear_logs"]
    /\ result' = Returned(Num(Count(logs)))
    /\ logs' = <<>>
    /\ origins' = <<>>
    /\ added' = <<>>
    /\ UNCHANGED <<maxSize, history, atStart, fileVars, watcherVars, serverVars, clientVars>>

\* the tool get_runtime_logs
GetRuntimeLogsTool ==
    /\ \E args \in RuntimeArgsPool :
          /\ filter' = [call |-> "get_runtime_logs", args |-> args]
          /\ result' = GetRuntimeLogs(logs, args)
    /\ UNCHANGED <<storeVars, fileVars, watcherVars, ghostVars, serverVars, clientVars>>

ToolsNext ==
    \/ StoreGetErrors \/ GetErrorsTool
    \/ ClearLogsTool
    \/ GetRuntimeLogsTool

SpecTools == ToolsInit /\ [][ToolsNext]_vars

----------------------------------------------------------------------------
(* A running LogWatcher, a build tool that appends whole lines, and the
   tools get_build_logs and get_errors *)

\* args.limit ?? 50 of get_build_logs
DefaultBuildLimit == 50

\* the handler of get_build_logs up to the formatting: what store.get returns
GetBuildLogs(store, args) ==
    LogStoreGet(store, [limit  |-> Coalesce(args.limit, Num(DefaultBuildLimit)),
                        types  |-> args.types,
                        since  |-> args.since,
                        issuer |-> args.issuer,
                        search |-> args.search])

\* the arguments get_build_logs is called with: none, and a search
BuildArgsPool ==
    {NoFilter, [NoFilter EXCEPT !.search = Str(<<"B","u","i","l","d">>)]}

\* the tool get_build_logs
GetBuildLogsTool ==
    /\ \E args \in BuildArgsPool :
          /\ filter' = [call |-> "get_build_logs", args |-> args]
          /\ result' = GetBuildLogs(logs, args)
    /\ UNCHANGED <<storeVars, fileVars, watcherVars, ghostVars, serverVars, clientVars>>

\* the line {"message":"build ok","level":"done"}
BuildOk == 6

\* no readNewContent is under way and no notification waits for its handler
Quiescent ==
    /\ \A i \in DOMAIN cycles : cycles[i].pc = "free"
    /\ \A s \in DOMAIN subs : subs[s].closed \/ subs[s].queue = <<>>

\* the build tool appends {"message":"build ok","level":"done"}, one line at
\* a time: the read cycle of the line before is over
WriteBuildOk == Quiescent /\ WriteLineOf({BuildOk})

\* start() has resolved: the LogWatcher watches a path with no file yet, or a
\* file of one line that its initial read has gone through
RunningOn(text) ==
    LET found == NewEntries(text, 0, CHOOSE now \in NowPool : TRUE)
    IN  /\ file = IF text = <<>> THEN Absent ELSE FileOf(text)
        /\ nextId = (Len(text) \div 3) + 1
        /\ writes = 0
        /\ logs = [i \in DOMAIN found |-> found[i].e]
        /\ origins = [i \in DOMAIN found |-> found[i].from]
        /\ added = logs
        /\ history = origins
        /\ atStart = Records(text)
        /\ lastPosition = Len(text)
        /\ watching = TRUE
        /\ watcher = 1
        /\ subs = <<[closed |-> FALSE, queue |-> <<>>]>>
        /\ cycles = [i \in 1..MaxCycles |-> Free]
        /\ stopping = 0
        /\ calls = [start |-> 1, stop |-> 0, serverStop |-> 0, stoppedAt |-> -1]

BuildSpecInit ==
    /\ maxSize = DefaultMaxLogs
    /\ filter = NoFilter
    /\ result = NoResult
    /\ \E text \in {<<>>, LineText(1, 1), LineText(1, 2)} : RunningOn(text)
    /\ ServerInit

BuildNext ==
    \/ WriteBuildOk
    \/ Deliver
    \/ StatSys \/ StatResume \/ ReadSys \/ ReadResume
    \/ GetBuildLogsTool \/ GetErrorsTool

\* chokidar delivers its notifications, and stat and readFile call back
\* (for ReadResume the weak fairness is written out, with what enables the
\* step: a readFile that has called back, and no synchronous code running)
ReadResumeEnabled ==
    \E i \in DOMAIN cycles : cycles[i].pc = "readDone" /\ ~Resuming

ReaderFairness ==
    /\ WF_vars(Deliver)
    /\ WF_vars(StatSys) /\ WF_vars(StatResume)
    /\ WF_vars(ReadSys)
    /\ ([]<>(~ReadResumeEnabled) \/ []<><<ReadResume>>_vars)

SpecBuild == BuildSpecInit /\ [][BuildNext]_vars /\ ReaderFairness

\* the running LogWatcher and a writer that only appends, whole lines and
\* lines in two halves
AppendNext ==
    \/ WriteLine \/ WriteHalf \/ WriteRest
    \/ Deliver
    \/ StatSys \/ StatResume \/ ReadSys \/ ReadResume

SpecAppend == BuildSpecInit /\ [][AppendNext]_vars

\* the file is created anew, with one line or with two
CreateFile ==
    /\ writes < MaxWrites
    /\ ~file.exists
    /\ \E k \in WholePool, twice \in BOOLEAN :
          /\ file' = FileOf(LineText(nextId, k) \o
                            (IF twice THEN LineText(nextId + 1, k) ELSE <<>>))
          /\ nextId' = nextId + (IF twice THEN 2 ELSE 1)
    /\ Notify("add")
    /\ writes' = writes + 1
    /\ UNCHANGED <<storeVars, lastPosition, watching, watcher, cycles, stopping,
                   calls, queryVars, serverVars, clientVars, ghostVars>>

\* start() has resolved on a file of one line or of two, all read; or on a
\* file of one line to which the writer has since appended a second, whose
\* change notification has not reached its handler yet
RecreateSpecInit ==
    /\ maxSize = DefaultMaxLogs
    /\ filter = NoFilter
    /\ result = NoResult
    /\ ServerInit
    /\ \/ \E text \in {LineText(1, 1), LineText(1, 1) \o LineText(2, 2)} : RunningOn(text)
       \/ LET found == NewEntries(LineText(1, 1), 0, CHOOSE now \in NowPool : TRUE)
          IN  /\ file = FileOf(LineText(1, 1) \o LineText(2, 2))
              /\ nextId = 3
              /\ writes = 0
              /\ logs = [i \in DOMAIN found |-> found[i].e]
              /\ origins = [i \in DOMAIN found |-> found[i].from]
              /\ added = logs
              /\ history = origins
              /\ atStart = Records(LineText(1, 1))
              /\ lastPosition = Len(LineText(1, 1))
              /\ watching = TRUE
              /\ watcher = 1
              /\ subs = <<[closed |-> FALSE, queue |-> <<"change">>]>>
              /\ cycles = [i \in 1..MaxCycles |-> Free]
              /\ stopping = 0
              /\ calls = [start |-> 1, stop |-> 0, serverStop |-> 0, stoppedAt |-> -1]

\* the running LogWatcher and a file that is deleted and created anew
RecreateNext ==
    \/ Delete \/ CreateFile
    \/ Deliver
    \/ StatSys \/ StatResume \/ ReadSys \/ ReadResume

SpecRecreate == RecreateSpecInit /\ [][RecreateNext]_vars

\* the running LogWatcher and a file that is appended to, truncated and
\* deleted under its read cycles
FailingNext ==
    \/ WriteLine \/ Replace \/ Delete
    \/ Deliver
    \/ StatSys \/ StatResume \/ ReadSys \/ ReadResume

SpecFailing == RecreateSpecInit /\ [][FailingNext]_vars

----------------------------------------------------------------------------
(* The MCP tool get_status *)

\* the number of entries get_status asks the store for
StatusScanLimit == 10000

\* the handler of get_status up to the formatting: the status it reports
GetStatus(store) ==
    LET allLogs     == LogStoreGet(store, [NoFilter EXCEPT !.limit = Num(StatusScanLimit)]).v
        buildLogs   == SelectSeq(allLogs, LAMBDA log :
                           Coalesce(Prop(log, "issuer"), Str(<<>>)) \in BuildIssuers)
        runtimeLogs == SelectSeq(allLogs, LAMBDA log :
                           Coalesce(Prop(log, "issuer"), Str(<<>>)) \notin BuildIssuers)
    IN  [watching          |-> watching,
         fileExists        |-> file.exists,
         logCount          |-> Count(store),
         buildLogCount     |-> Len(buildLogs),
         runtimeLogCount   |-> Len(runtimeLogs),
         errorCount        |-> CountByType(store, TError),
         warningCount      |-> CountByType(store, TWarn),
         lastUpdate        |-> LastTimestamp(store),
         runtimeServerPort |-> ActivePort]

\* a store of one entry more than get_status asks for
StatusLongStore ==
    [i \in 1..(StatusScanLimit + 1) |->
       LogEntry(Str(<<"1">>), TInfo, Str(<<"r">>), Str(<<"a","p","p">>), Undefined, Undefined)]

\* the tool get_status
GetStatusTool ==
    /\ filter' = [call |-> "get_status"]
    /\ result' = Returned(GetStatus(logs))
    /\ UNCHANGED <<storeVars, fileVars, watcherVars, ghostVars, serverVars, clientVars>>

\* a store of the default capacity with up to MaxStored entries, or one of
\* eleven times that capacity (REPACK_MAX_LOGS) holding StatusLongStore
StatusSpecInit ==
    /\ \/ /\ logs \in SeqsUpTo(ToolEntryPool, MaxStored)
          /\ maxSize = DefaultMaxLogs
       \/ /\ logs = StatusLongStore
          /\ maxSize = 11 * DefaultMaxLogs
    /\ added = logs
    /\ origins = [i \in DOMAIN logs |-> ByCaller]
    /\ history = origins
    /\ atStart = {}
    /\ filter = NoFilter
    /\ result = NoResult
    /\ NoFile /\ WatcherInit /\ ServerInit

StatusNext == GetStatusTool \/ ClearLogsTool

SpecStatus == StatusSpecInit /\ [][StatusNext]_vars

----------------------------------------------------------------------------
(* Queries on what the two producers have stored *)

\* the places in LinePool of the records the producers are given: an ordinary
\* line and the lines of QueryLines
QueryPool == {1} \cup {6 + n : n \in DOMAIN QueryLines}

\* the filters of the queries: none, an issuer, a search
QueryFilters ==
    {NoFilter,
     [NoFilter EXCEPT !.issuer = Str(<<"o">>)],
     [NoFilter EXCEPT !.search = Str(<<"o">>)]}

\* the application posts one of the records to /log, or two in a batch
ReceiveQueried ==
    ReceiveOf({LinePool[k] : k \in QueryPool},
              {Batch(Arr(<<LinePool[1], LinePool[k]>>)) : k \in QueryPool})

\* store.get(filter)
LogStoreGetCall ==
    /\ \E f \in QueryFilters :
          /\ filter' = [call |-> "get", args |-> f]
          /\ result' = LogStoreGet(logs, f)
    /\ UNCHANGED <<storeVars, fileVars, watcherVars, ghostVars, serverVars, clientVars>>

\* get_build_logs(filter)
GetBuildLogsQuery ==
    /\ \E f \in QueryFilters :
          /\ filter' = [call |-> "get_build_logs", args |-> f]
          /\ result' = GetBuildLogs(logs, f)
    /\ UNCHANGED <<storeVars, fileVars, watcherVars, ghostVars, serverVars, clientVars>>

\* get_runtime_logs({}) and get_runtime_logs({search})
GetRuntimeLogsQuery ==
    /\ \E search \in {Undefined, Str(<<"o">>)} :
          LET args == [limit |-> Undefined, tag |-> Undefined,
                       types |-> Undefined, search |-> search]
          IN  /\ filter' = [call |-> "get_runtime_logs", args |-> args]
              /\ result' = GetRuntimeLogs(logs, args)
    /\ UNCHANGED <<storeVars, fileVars, watcherVars, ghostVars, serverVars, clientVars>>

\* RuntimeServer.start() has resolved on the default port; the LogWatcher is
\* watching a file of one line and has just been told of it
QueriesSpecInit ==
    /\ logs = <<>>
    /\ maxSize = DefaultMaxLogs
    /\ added = <<>> /\ origins = <<>> /\ history = <<>> /\ atStart = {}
    /\ filter = NoFilter
    /\ result = NoResult
    /\ \E k \in QueryPool : file = FileOf(LineText(1, k))
    /\ writes = 0
    /\ nextId = 2
    /\ lastPosition = 0
    /\ watching = TRUE
    /\ watcher = 1
    /\ subs = <<[closed |-> FALSE, queue |-> <<>>]>>
    /\ cycles = [i \in 1..MaxCycles |->
                   IF i = 1 THEN Cycle("stat", "event", FALSE, 0, <<>>, FALSE) ELSE Free]
    /\ stopping = 0
    /\ calls = [start |-> 1, stop |-> 0, serverStop |-> 0, stoppedAt |-> -1]
    /\ configPort = DefaultRuntimePort
    /\ port = DefaultRuntimePort
    /\ occupied = {}
    /\ server = "listening"
    /\ bound = DefaultRuntimePort
    /\ inflight = {}
    /\ responses = <<>>
    /\ closing = 0
    /\ ClientInit

QueriesNext ==
    \/ StatSys \/ StatResume \/ ReadSys \/ ReadResume
    \/ ReceiveQueried \/ PostLog \/ PostLogs
    \/ LogStoreGetCall \/ GetBuildLogsQuery \/ GetRuntimeLogsQuery

SpecQueries == QueriesSpecInit /\ [][QueriesNext]_vars

----------------------------------------------------------------------------
(* The application posts tagged errors to /log and get_runtime_logs is asked
   for a tag *)

\* the tags the application gives: a component name, the name of a build
\* issuer, and the empty string
TagPool == {Str(<<"T">>), Str(<<"w","a","t","c","h","e","r">>), Str(<<>>)}

\* the body {"type":"error","message":"m","tag":tag}
TaggedError(tag) == Obj([k \in {"type", "message", "tag"} |->
                       CASE k = "type"    -> TError
                         [] k = "message" -> Str(<<"m">>)
                         [] k = "tag"     -> tag])

\* get_runtime_logs({tag})
TagArgs(tag) == [limit |-> Undefined, tag |-> tag, types |-> Undefined, search |-> Undefined]

ReceiveTagged ==
    ReceiveOf({TaggedError(tag) : tag \in TagPool}, {Batch(Arr(<<ReqWarning>>))})

GetRuntimeLogsByTag ==
    /\ \E tag \in TagPool :
          /\ filter' = [call |-> "get_runtime_logs", args |-> TagArgs(tag)]
          /\ result' = GetRuntimeLogs(logs, TagArgs(tag))
    /\ UNCHANGED <<storeVars, fileVars, watcherVars, ghostVars, serverVars, clientVars>>

\* the store holds up to one entry, put there by its caller, and the
\* RuntimeServer listens on the default port
RuntimeSpecInit ==
    /\ logs \in SeqsUpTo(ToolEntryPool \cup
                            {LogEntry(Str(<<"1">>), TInfo, Str(<<"o">>), tag, Undefined, Undefined) :
                                tag \in TagPool}, 1)
    /\ maxSize = DefaultMaxLogs
    /\ added = logs
    /\ origins = [i \in DOMAIN logs |-> ByCaller]
    /\ history = origins
    /\ atStart = {}
    /\ filter = NoFilter
    /\ result = NoResult
    /\ NoFile /\ WatcherInit
    /\ configPort = DefaultRuntimePort
    /\ port = DefaultRuntimePort
    /\ occupied = {}
    /\ server = "listening"
    /\ bound = DefaultRuntimePort
    /\ inflight = {}
    /\ responses = <<>>
    /\ closing = 0
    /\ ClientInit

RuntimeNext ==
    \/ ReceiveTagged \/ PostLog \/ PostLogs
    \/ GetRuntimeLogsByTag

SpecRuntime == RuntimeSpecInit /\ [][RuntimeNext]_vars

----------------------------------------------------------------------------
(* The client logger in the application: createLogger, flushLogs, and the
   capture of console.  One entry of logBuffer is a record of its type,
   message, tag and data, and of n, its rank among the entries ever pushed. *)

\* number of calls the application makes of a logger method or of console
MaxAppCalls == 2

\* what a fetch() comes to: a response, a rejected promise (no server there),
\* or an exception out of fetch itself
FetchOutcomes == {"resolved", "rejected", "threw"}

\* try { await fetch(...) } catch { }: nothing gets past the catch
Uncaught(outcome) == FALSE

\* args[0].match(/^\[([^\]]+)\]/): what stands between a leading [ and the
\* first ], when something does; <<>> for no match
TagMatch(s) ==
    LET closes == {j \in DOMAIN s : s[j] = "]"}
    IN  IF Len(s) >= 3 /\ s[1] = "[" /\ closes # {} /\ (\A j \in closes : j > 2)
        THEN SubSeq(s, 2, (CHOOSE j \in closes : \A k \in closes : j <= k) - 1)
        ELSE <<>>

\* createInterceptor(type, originalConsole[method]) of an enableConsoleCapture
\* called with these includePatterns and excludePatterns
Interceptor(type, method, include, exclude) ==
    [fn |-> "interceptor", type |-> type, of |-> method,
     include |-> include, exclude |-> exclude]

\* patterns.some(p => p.test(tag) || p.test(message)); a RegExp is the text it
\* looks for
SomeTest(patterns, tag, message) ==
    \E i \in DOMAIN patterns.a :
        Includes(tag, patterns.a[i].s) \/ Includes(message, patterns.a[i].s)

\* the interceptor f called with args (strings): the original is called, and
\* an entry is made unless the patterns are against it
Intercept(f, args) ==
    LET tagMatch == TagMatch(args[1])
        tag      == IF tagMatch # <<>> THEN tagMatch ELSE <<"c","o","n","s","o","l","e">>
        message  == args[1]     \* one argument: its text; more: the first
        data     == IF Len(args) = 1 THEN Undefined
                    ELSE IF Len(args) = 2 THEN Str(args[2])
                    ELSE Arr([i \in 1..(Len(args) - 1) |-> Str(args[i + 1])])
        dropped  == \/ /\ f.include # Undefined /\ Len(f.include.a) > 0
                       /\ ~SomeTest(f.include, tag, message)
                    \/ /\ f.exclude # Undefined /\ Len(f.exclude.a) > 0
                       /\ SomeTest(f.exclude, tag, message)
    IN  [originals |-> 1,
         pushed |-> IF dropped THEN <<>>
                    ELSE <<[type |-> f.type, message |-> Str(message), tag |-> Str(tag),
                            data |-> data, n |-> 0]>>]

\* with an interceptor that leaves the original alone when its patterns drop
\* the entry
CallConsoleKeptOnly(f, args) ==
    IF f.fn = "original" THEN [originals |-> 1, pushed |-> <<>>]
    ELSE [originals |-> IF Intercept(f, args).pushed = <<>> THEN 0 ELSE 1,
          pushed    |-> Intercept(f, args).pushed]

\* a call of what a console method is bound to
CallConsole(f, args) ==
    IF f.fn = "original" THEN [originals |-> 1, pushed |-> <<>>]
    ELSE Intercept(f, args)

\* globalServerUrl, and a serverUrl given to createLogger
GlobalServerUrl == "http://localhost:9090"
OtherServerUrl == "http://other:9090"

\* logBuffer.push(entry); if (!flushTimer) flushTimer = setTimeout(() =>
\* flushLogs(serverUrl), ...), for the entries of one handler; from[i] is the
\* serverUrl of the closure that pushes entries[i]
Push(entries, from) ==
    LET stamped == [i \in DOMAIN entries |-> [entries[i] EXCEPT !.n = Len(buffered) + i]]
    IN  /\ logBuffer' = logBuffer \o stamped
        /\ buffered' = buffered \o stamped
        /\ IF entries # <<>> /\ flushTimer = 0
           THEN /\ flushTimer' = timersMade + 1
                /\ timers' = timers \cup {timersMade + 1}
                /\ timersMade' = timersMade + 1
                /\ urls' = [timer |-> Append(urls.timer, from[1]),
                            entry |-> urls.entry \o from]
           ELSE /\ UNCHANGED <<flushTimer, timers, timersMade>>
                /\ urls' = [urls EXCEPT !.entry = @ \o from]

\* the options of createLogger, with the global settings as they are at first
LoggerPool ==
    [enabled : {TRUE}, passthrough : BOOLEAN, batched : BOOLEAN]
    \cup {[enabled |-> FALSE, passthrough |-> TRUE, batched |-> TRUE]}

\* the console method sendLog passes an entry of this type to
ConsoleMethodOf(type) ==
    CASE type = TError -> "error"
      [] type = TWarn  -> "warn"
      [] type = TDebug -> "debug"
      [] OTHER         -> "log"

\* log.error("m") of a logger made by createLogger("T", options), for these
\* options and these serverUrl; the interceptors of the capture, whose options
\* name no serverUrl, push for globalServerUrl
SendLogOf(loggers, serverUrls) ==
    /\ appCalls < MaxAppCalls
    /\ appCalls' = appCalls + 1
    /\ \E lg \in loggers, serverUrl \in serverUrls, type \in {TError}, outcome \in FetchOutcomes :
          LET entry  == [type |-> type, message |-> Str(<<"m">>), tag |-> Str(<<"T">>),
                         data |-> Undefined, n |-> 0]
              method == ConsoleMethodOf(type)
              out    == CallConsole(console[method], << <<"[","T","]">>, <<"m">> >>)
          IN  IF ~lg.enabled
              THEN UNCHANGED <<logBuffer, flushTimer, timers, timersMade, fetches,
                               buffered, consoleCall, urls>>
              ELSE /\ consoleCall' =
                         IF lg.passthrough
                         THEN [method |-> method, capturing |-> consoleCapureEnabled,
                               kept |-> out.pushed # <<>>, originals |-> out.originals]
                         ELSE consoleCall
                   /\ Push((IF lg.passthrough THEN out.pushed ELSE <<>>)
                           \o (IF lg.batched THEN <<entry>> ELSE <<>>),
                           (IF lg.passthrough
                            THEN [i \in DOMAIN out.pushed |-> GlobalServerUrl] ELSE <<>>)
                           \o (IF lg.batched THEN <<serverUrl>> ELSE <<>>))
                   /\ fetches' =
                         IF lg.batched THEN fetches
                         ELSE Append(fetches, [path |-> "/log", logs |-> <<entry>>,
                                               url |-> serverUrl, of |-> serverUrl,
                                               outcome |-> outcome,
                                               raised |-> Uncaught(outcome)])
    /\ UNCHANGED <<console, consoleCapureEnabled>>
    /\ UNCHANGED <<storeVars, fileVars, watcherVars, queryVars, ghostVars, serverVars>>

\* a logger whose options name no serverUrl
SendLog == SendLogOf(LoggerPool, {GlobalServerUrl})

\* what the application passes to console: a tagged text, and a text with
\* one more argument
ConsoleArgsPool == { << <<"[","A","]"," ","x">> >>, << <<"p">>, <<"d">> >> }

\* the application calls one of these methods of console
ConsoleCallOf(methods) ==
    /\ appCalls < MaxAppCalls
    /\ appCalls' = appCalls + 1
    /\ \E method \in methods, args \in ConsoleArgsPool :
          LET out == CallConsole(console[method], args)
          IN  /\ consoleCall' =
                     [method |-> method, capturing |-> consoleCapureEnabled,
                      kept |-> out.pushed # <<>>, originals |-> out.originals]
              /\ Push(out.pushed, [i \in DOMAIN out.pushed |-> GlobalServerUrl])
    /\ UNCHANGED <<fetches, console, consoleCapureEnabled>>
    /\ UNCHANGED <<storeVars, fileVars, watcherVars, queryVars, ghostVars, serverVars>>

\* the application calls console.log, info, warn, error or debug
ConsoleCall == ConsoleCallOf(Methods)

\* the application calls console.log
ConsoleLog == ConsoleCallOf({"log"})

\* the options of enableConsoleCapture: nothing, the patterns [/A/] to
\* include, the same to exclude, and enabled: false
CaptureOptionsPool ==
    { [enabled |-> TRUE, include |-> Undefined, exclude |-> Undefined],
      [enabled |-> TRUE, include |-> Arr(<<Str(<<"A">>)>>), exclude |-> Undefined],
      [enabled |-> TRUE, include |-> Undefined, exclude |-> Arr(<<Str(<<"A">>)>>)],
      [enabled |-> FALSE, include |-> Undefined, exclude |-> Undefined] }

\* the type createInterceptor is given for each method
InterceptorType(method) ==
    CASE method = "warn"  -> TWarn
      [] method = "error" -> TError
      [] method = "debug" -> TDebug
      [] OTHER            -> TInfo

\* enableConsoleCapture(options) on c = [console, enabled]
EnableConsoleCaptureOn(c, options) ==
    IF c.enabled \/ ~options.enabled THEN c
    ELSE [console |-> [m \in Methods |->
                         Interceptor(InterceptorType(m), m, options.include, options.exclude)],
          enabled |-> TRUE]

\* disableConsoleCapture() on c = [console, enabled]
DisableConsoleCaptureOn(c) ==
    IF ~c.enabled THEN c
    ELSE [console |-> [m \in Methods |-> Original(m)], enabled |-> FALSE]

\* console and consoleCapureEnabled as they are
Capture == [console |-> console, enabled |-> consoleCapureEnabled]

EnableConsoleCapture ==
    /\ \E options \in CaptureOptionsPool :
          /\ console' = EnableConsoleCaptureOn(Capture, options).console
          /\ consoleCapureEnabled' = EnableConsoleCaptureOn(Capture, options).enabled
    /\ UNCHANGED <<logBuffer, flushTimer, timers, timersMade, fetches, buffered,
                   consoleCall, appCalls, urls>>
    /\ UNCHANGED <<storeVars, fileVars, watcherVars, queryVars, ghostVars, serverVars>>

DisableConsoleCapture ==
    /\ console' = DisableConsoleCaptureOn(Capture).console
    /\ consoleCapureEnabled' = DisableConsoleCaptureOn(Capture).enabled
    /\ UNCHANGED <<logBuffer, flushTimer, timers, timersMade, fetches, buffered,
                   consoleCall, appCalls, urls>>
    /\ UNCHANGED <<storeVars, fileVars, watcherVars, queryVars, ghostVars, serverVars>>

\* a flushLogs that sends the buffer and keeps it
FlushLogsKeepBuffer(pending, outcome, serverUrl) ==
    /\ flushTimer' = 0
    /\ timers' = pending \ {flushTimer}
    /\ IF logBuffer = <<>>
       THEN UNCHANGED <<logBuffer, fetches>>
       ELSE /\ logBuffer' = logBuffer
            /\ fetches' = Append(fetches, [path |-> "/logs", logs |-> logBuffer,
                                           url |-> serverUrl,
                                           outcome |-> outcome,
                                           raised |-> Uncaught(outcome)])
    /\ UNCHANGED <<timersMade, buffered, console, consoleCapureEnabled, consoleCall,
                   appCalls, urls>>
    /\ UNCHANGED <<storeVars, fileVars, watcherVars, queryVars, ghostVars, serverVars>>

\* flushLogs(serverUrl) with these timeouts pending, up to its await
FlushLogs(pending, outcome, serverUrl) ==
    /\ flushTimer' = 0
    /\ timers' = pending \ {flushTimer}
    /\ IF logBuffer = <<>>
       THEN UNCHANGED <<logBuffer, fetches>>
       ELSE /\ logBuffer' = <<>>
            /\ fetches' = Append(fetches, [path |-> "/logs", logs |-> logBuffer,
                                           url |-> serverUrl,
                                           outcome |-> outcome,
                                           raised |-> Uncaught(outcome)])
    /\ UNCHANGED <<timersMade, buffered, console, consoleCapureEnabled, consoleCall,
                   appCalls, urls>>
    /\ UNCHANGED <<storeVars, fileVars, watcherVars, queryVars, ghostVars, serverVars>>

\* the timeout set by sendLog or by an interceptor comes due
TimerFires ==
    \E t \in timers, outcome \in FetchOutcomes :
        FlushLogs(timers \ {t}, outcome, urls.timer[t])

\* the application calls flush() of a logger made with one of these serverUrl
FlushCallOf(serverUrls) ==
    \E outcome \in FetchOutcomes, serverUrl \in serverUrls :
        FlushLogs(timers, outcome, serverUrl)

\* flush() of a logger whose options name no serverUrl
FlushCall == FlushCallOf({GlobalServerUrl})

ClientSpecInit ==
    /\ logs = <<>>
    /\ maxSize = DefaultMaxLogs
    /\ added = <<>> /\ origins = <<>> /\ history = <<>> /\ atStart = {}
    /\ filter = NoFilter
    /\ result = NoResult
    /\ NoFile /\ WatcherInit /\ ServerInit

\* loggers, console.log under capture, and the flushes
ClientNext ==
    \/ SendLog \/ ConsoleLog
    \/ EnableConsoleCapture \/ DisableConsoleCapture
    \/ FlushCall \/ TimerFires

\* a timeout that is pending comes due
SpecClient == ClientSpecInit /\ [][ClientNext]_vars /\ WF_vars(TimerFires)

\* the five console methods and the loggers, with the capture switched on and
\* off
CaptureNext ==
    \/ SendLog \/ ConsoleCall
    \/ EnableConsoleCapture \/ DisableConsoleCapture

SpecCapture == ClientSpecInit /\ [][CaptureNext]_vars

\* loggers that leave console alone, batched or not
TargetLoggers == [enabled : {TRUE}, passthrough : {FALSE}, batched : BOOLEAN]

\* log.error("m") of a logger made with no serverUrl, or with another one
SendLogTo == SendLogOf(TargetLoggers, {GlobalServerUrl, OtherServerUrl})

\* flush() of such a logger
FlushCallTo == FlushCallOf({GlobalServerUrl, OtherServerUrl})

\* loggers of two serverUrl, console.log under capture, and the flushes
TargetNext ==
    \/ SendLogTo \/ ConsoleLog
    \/ EnableConsoleCapture
    \/ FlushCallTo \/ TimerFires

SpecTarget == ClientSpecInit /\ [][TargetNext]_vars

----------------------------------------------------------------------------
(* LogWatcher.stop() and RuntimeServer.stop(), called again and again *)

\* RuntimeServer.stop() up to the callback of server.close(): a listening
\* server stops listening at once; close() of a server that is not listening
\* hands its callback an error, which () => resolve() does not look at;
\* without a server the promise resolves within the call
ServerStopCall ==
    /\ calls.serverStop < MaxCalls
    /\ calls' = [calls EXCEPT !.serverStop = @ + 1]
    /\ IF server # "none"
       THEN /\ closing' = closing + 1
            /\ server' = IF server = "listening" THEN "closed" ELSE server
            /\ bound' = IF server = "listening" THEN 0 ELSE bound
       ELSE UNCHANGED <<closing, server, bound>>
    /\ UNCHANGED <<storeVars, fileVars, lastPosition, watching, watcher, subs,
                   cycles, stopping, queryVars, ghostVars,
                   port, configPort, occupied, inflight, responses, clientVars>>

\* the callback of server.close(): resolve()
ServerStopDone ==
    /\ closing > 0
    /\ closing' = closing - 1
    /\ UNCHANGED <<storeVars, fileVars, watcherVars, queryVars, ghostVars,
                   port, configPort, occupied, server, bound, inflight, responses,
                   clientVars>>

\* The LogWatcher has either not been started or is watching a path with no
\* file yet; the RuntimeServer has either not been started or is listening
\* on the default port
StopSpecInit ==
    /\ logs = <<>>
    /\ maxSize = DefaultMaxLogs
    /\ added = <<>> /\ origins = <<>> /\ history = <<>> /\ atStart = {}
    /\ filter = NoFilter
    /\ result = NoResult
    /\ NoFile
    /\ lastPosition = 0
    /\ cycles = [i \in 1..MaxCycles |-> Free]
    /\ stopping = 0
    /\ \E started \in BOOLEAN :
          /\ watching = started
          /\ watcher = IF started THEN 1 ELSE 0
          /\ subs = IF started THEN <<[closed |-> FALSE, queue |-> <<>>]>> ELSE <<>>
          /\ calls = [start |-> IF started THEN 1 ELSE 0, stop |-> 0, serverStop |-> 0, stoppedAt |-> -1]
    /\ configPort = DefaultRuntimePort
    /\ port = DefaultRuntimePort
    /\ occupied = {}
    /\ server \in {"none", "listening"}
    /\ bound = IF server = "listening" THEN DefaultRuntimePort ELSE 0
    /\ inflight = {}
    /\ responses = <<>>
    /\ closing = 0
    /\ ClientInit

StopNext ==
    \/ StopCall \/ StopContinue
    \/ ServerStopCall \/ ServerStopDone
    \/ WriteLine \/ Deliver
    \/ StatSys \/ StatResume \/ ReadSys \/ ReadResume

\* close() of the FSWatcher and close() of the server both call back in the end
SpecStop ==
    /\ StopSpecInit /\ [][StopNext]_vars
    /\ WF_vars(StopContinue) /\ WF_vars(ServerStopDone)

----------------------------------------------------------------------------
(* Claims *)

\* The last n members of s (all of s when it has fewer)
LastN(s, n) == SubSeq(s, Max(Len(s) - n, 0) + 1, Len(s))

\* C1: bounded retention.  After every add / addMany call the store holds at
\* most maxSize entries, and they are exactly the last maxSize entries added,
\* in arrival order, for every capacity 0, 1, 2, ...
C1_BoundedRetention ==
    /\ Len(logs) <= maxSize
    /\ logs = LastN(added, maxSize)

\* The same with the capacity 0 left out (it holds: the store is bounded for
\* every capacity of at least 1).
C1_BoundedRetentionPositive ==
    maxSize >= 1 => C1_BoundedRetention

\* C2: the kind of every stored entry is one of the six values of LogType,
\* whatever the type or level of the line or request it was made from.
C2_KindEnumerated ==
    \A i \in DOMAIN logs : Prop(logs[i], "type") \in LogType

\* Whether hay holds needle at some position, letter case ignored
ContainsNoCase(hay, needle) ==
    \E i \in 0..(Len(hay) - Len(needle)) :
        \A j \in 1..Len(needle) : ToLowerChar(hay[i + j]) = ToLowerChar(needle[j])

FieldContains(log, k, needle) ==
    /\ k \in DOMAIN log
    /\ log[k].t = "string"
    /\ ContainsNoCase(log[k].s, needle)

\* The entry satisfies every predicate that f sets.  types is set by a list
\* with a member; since, issuer and search by a string that is not empty.
Satisfies(f, log) ==
    /\ (f.types # Undefined /\ f.types.a # <<>>) =>
          log["type"] \in {f.types.a[i] : i \in DOMAIN f.types.a}
    /\ f.since # Undefined =>
          /\ NewDate(log["timestamp"]).valid
          /\ NewDate(log["timestamp"]).ms >= NewDate(f.since).ms
    /\ f.issuer # Undefined => FieldContains(log, "issuer", f.issuer.s)
    /\ f.search # Undefined =>
          \/ FieldContains(log, "message", f.search.s)
          \/ FieldContains(log, "file", f.search.s)
          \/ FieldContains(log, "request", f.search.s)

AllMatches(f) == SelectSeq(logs, LAMBDA log : Satisfies(f, log))

HasLimit(f) == f.limit # Undefined /\ f.limit.n > 0

\* C3: filter conjunction.  get(filter) returns, in arrival order, exactly
\* the stored entries that satisfy all the predicates the filter sets; with
\* no predicate set it returns every entry; with a limit on top, every entry
\* it returns still satisfies all of them.
C3_FilterConjunction ==
    result # NoResult =>
        /\ result.ok
        /\ ~HasLimit(filter) => result.v = AllMatches(filter)
        /\ \A i \in DOMAIN result.v : Satisfies(filter, result.v[i])
        /\ (filter = NoFilter => result.v = logs)

\* C3 witness: a get with types, since, issuer and search all set returned
\* some of the entries and left others out.
C3_Witness ==
    /\ result # NoResult
    /\ filter.types # Undefined /\ filter.types.a # <<>>
    /\ filter.since # Undefined /\ filter.issuer # Undefined
    /\ filter.search # Undefined /\ filter.limit = Undefined
    /\ Len(result.v) = 2
    /\ Len(logs) = 3

\* C4: the limit applies last.  With limit L > 0, get returns the last
\* min(L, number of matches) of the entries matching the other predicates,
\* in arrival order.
C4_LimitAppliesLast ==
    (result # NoResult /\ HasLimit(filter)) =>
        LET all == AllMatches(filter)
            n   == Min(filter.limit.n, Len(all))
        IN  /\ result.ok
            /\ Len(result.v) = n
            /\ \A i \in 1..n : result.v[i] = all[Len(all) - n + i]

\* C4 witness: more entries match than the limit allows, and the ones
\* returned are not the first ones.
C4_Witness ==
    /\ result # NoResult
    /\ HasLimit(filter)
    /\ filter.search # Undefined
    /\ Len(AllMatches(filter)) > filter.limit.n
    /\ result.v # SubSeq(AllMatches(filter), 1, filter.limit.n)

\* how many members of s are about the line id
Times(id, s) == Cardinality({i \in DOMAIN s : s[i].src = "file" /\ s[i].id = id})

\* some start() has read the file and not yet gone through what it read
InitialReadPending ==
    \E i \in DOMAIN cycles : cycles[i].owner = "start" /\ cycles[i].pc = "readDone"

\* C5, first half: start() installs the watch only when the readNewContent
\* it awaits has returned.
C5_ReadBeforeWatch ==
    [][Len(subs') > Len(subs) =>
          \E i \in DOMAIN cycles :
              /\ cycles[i].owner = "start"
              /\ cycles[i].pc \in {"returned", "statDone", "readDone"}
              /\ cycles'[i].pc = "free"]_vars

\* C5: every record that the initial read of a start() found in the file is
\* handed to the store once: never twice, whatever notification or later
\* start() follows, and not less than once when that initial read is over.
C5_StartupExactlyOnce ==
    \A id \in atStart :
        /\ Times(id, history) <= 1
        /\ ~InitialReadPending => Times(id, history) >= 1

\* what a step hands to the store
Appended == SubSeq(history', Len(history) + 1, Len(history'))

\* the readNewContent of slot i goes from the end of await readFile, which
\* did not fail, to its end
Resumes(i) ==
    /\ cycles[i].pc = "readDone"
    /\ ~cycles[i].err
    /\ cycles'[i].pc = "free"

\* C6: a read cycle whose stat found the file smaller than the recorded
\* offset hands every line of what it reads to the store, from the first
\* line on, and leaves the offset at the end of what it read.
C6_TruncationRecovery ==
    [][\A i \in DOMAIN cycles :
          Resumes(i) /\ cycles[i].reset =>
              /\ \E now \in NowPool :
                    Appended = [j \in DOMAIN NewEntries(cycles[i].content, 0, now) |->
                                  NewEntries(cycles[i].content, 0, now)[j].from]
              /\ lastPosition' = Len(cycles[i].content)]_vars

\* a line that is JSON and has a message or a msg
HasMessage(line) ==
    LET parsed == JsonParse(line)
    IN  /\ parsed # BadJson
        /\ parsed # Null
        /\ Truthy(JsonProp(parsed, "message")) \/ Truthy(JsonProp(parsed, "msg"))

\* C7: of the lines one read cycle goes through, those that are not JSON or
\* have neither message nor msg add nothing, and every other line is handed
\* to the store, in the order of the file.
C7_BadLinesSkipped ==
    [][\A i \in DOMAIN cycles :
          Resumes(i) =>
              LET lines == Lines(JsSlice(cycles[i].content, lastPosition))
                  good  == SelectSeq(lines, HasMessage)
              IN  Appended = [j \in DOMAIN good |-> FromLine(good[j])]]_vars

\* a step in which a request is answered, and the answer
Answered == Len(responses') = Len(responses) + 1
Answer == responses'[Len(responses')]

\* a body that is not JSON
NotJson(r) == r.body = BadJson

\* a body of POST /logs that is JSON, with a logs that is no array or no logs
LogsNotArray(r) ==
    /\ r.path = "/logs"
    /\ r.body # BadJson
    /\ IF r.body = Null THEN TRUE ELSE JsonProp(r.body, "logs").t # "array"

\* C8 as stated: a request with a body that is not JSON, or a POST /logs
\* whose logs is not an array, is answered 400, adds nothing to the store,
\* and leaves the listener serving.
C8_MalformedRejected ==
    [][Answered /\ (NotJson(Answer) \/ LogsNotArray(Answer)) =>
          /\ Answer.status = 400
          /\ logs' = logs
          /\ server' = "listening"]_vars

\* C8, amended: a body that is not JSON is answered 400; a POST /logs whose
\* logs is not an array is answered 200 (400 when the payload is null); either
\* way nothing is added to the store and the listener goes on serving.
C8_MalformedIgnored ==
    [][Answered /\ (NotJson(Answer) \/ LogsNotArray(Answer)) =>
          /\ Answer.status = IF NotJson(Answer) \/ Answer.body = Null THEN 400 ELSE 200
          /\ logs' = logs
          /\ server' = "listening"]_vars

\* a POST /logs with logs: 5 was answered 200 with nothing added, and the
\* entry of a request answered after it is in the store
C8_Witness ==
    /\ server = "listening"
    /\ \E i, j \in DOMAIN responses :
          /\ i < j
          /\ responses[i].body = Batch(Num(5)) /\ responses[i].status = 200
          /\ \A p \in DOMAIN history :
                history[p].src = "http" => history[p].req # responses[i].req
          /\ \E p \in DOMAIN origins :
                origins[p].src = "http" /\ origins[p].req = responses[j].req

\* C9: the entries of one POST /logs that are in the store stand there in
\* the order of the list they were posted in, whatever file read cycle,
\* other request or clear came in between.
C9_BatchOrder ==
    \A p, q \in DOMAIN origins :
        /\ p < q
        /\ origins[p].src = "http" /\ origins[q].src = "http"
        /\ origins[p].req = origins[q].req
        => origins[p].idx < origins[q].idx

\* two entries of one batch are in the store next to an entry of the file
\* and an entry of another request, posted while the batch was coming in
C9_Witness ==
    /\ \E p, q \in DOMAIN origins :
          /\ p < q
          /\ origins[p].src = "http" /\ origins[q].src = "http"
          /\ origins[p].req = origins[q].req
          /\ origins[p].idx = 1 /\ origins[q].idx = 2
          /\ \E o \in DOMAIN origins :
                /\ origins[o].src = "http"
                /\ origins[o].req > origins[p].req
                /\ o < p
    /\ \E f \in DOMAIN origins : origins[f].src = "file"

\* the smallest port from p on that nothing else holds
SmallestFree(p) ==
    CHOOSE q \in FreePorts : q >= p /\ \A r \in FreePorts : r >= p => q <= r

\* C10: when start() has resolved the listener is bound to the smallest port
\* from the configured one on that nothing else holds, activePort is that
\* port, and start() does not fail while there is such a port.
C10_PortFallback ==
    /\ server = "listening" => bound = SmallestFree(configPort) /\ ActivePort = bound
    /\ (\E q \in FreePorts : q >= configPort) => server # "failed"

\* The same for the configured ports from 1 on (it holds: a configured port
\* of 0 is the one that is not bound as said).
C10_FallbackFromPortOne ==
    configPort >= 1 => C10_PortFallback

----------------------------------------------------------------------------
(* Stopping *)

\* the LogWatcher is stopped: no FSWatcher, not watching, every FSWatcher closed
WatcherStopped ==
    /\ watcher = 0
    /\ ~watching
    /\ \A s \in DOMAIN subs : subs[s].closed

\* the RuntimeServer listens on nothing
ServerStopped == server \in {"none", "closed"} /\ bound = 0

\* a step of LogWatcher.stop(), and one of RuntimeServer.stop()
WatcherStopStep == calls'.stop > calls.stop \/ stopping' < stopping
ServerStopStep == calls'.serverStop > calls.serverStop \/ closing' < closing

\* C11: stop() of the LogWatcher and stop() of the RuntimeServer can be called
\* twice in a row: every call completes, once a call (the first or the
\* second) has completed the component is stopped, a call on a stopped
\* component changes nothing of it, and no step of a stop() appends a record
\* to the store.
C11_IdempotentStop ==
    /\ [](calls.stop >= 1 /\ stopping = 0 => WatcherStopped)
    /\ [](calls.serverStop >= 1 => ServerStopped)
    /\ [][ /\ WatcherStopStep \/ ServerStopStep =>
                 logs' = logs /\ added' = added /\ history' = history
           /\ calls'.stop > calls.stop /\ calls.stop >= 1 /\ stopping = 0 =>
                 UNCHANGED <<lastPosition, watching, watcher, subs, cycles, stopping>>
           /\ calls'.serverStop > calls.serverStop /\ calls.serverStop >= 1 =>
                 UNCHANGED <<port, server, bound, inflight, responses>>
         ]_vars
    /\ (stopping > 0 ~> stopping = 0)
    /\ (closing > 0 ~> closing = 0)

\* both components were running, a line was written to the log file, and
\* both were stopped twice, every call having completed
C11_Witness ==
    /\ calls.start = 1 /\ calls.stop = 2 /\ stopping = 0
    /\ calls.serverStop = 2 /\ closing = 0 /\ server = "closed"
    /\ WatcherStopped
    /\ file.exists

----------------------------------------------------------------------------
(* Kinds *)

\* the kind a line carries, as type or as level; Undefined for none
KindOfLine(line) == Coalesce(JsonProp(line, "type"), JsonProp(line, "level"))

\* the kind strings listed, with the kind each is to become
ListedKinds ==
    {<<Str(<<"e","r","r">>), TError>>,
     <<Str(<<"E","R","R","O","R">>), TError>>,
     <<Str(<<"w","a","r","n","i","n","g">>), TWarn>>,
     <<Str(<<"W","A","R","N">>), TWarn>>,
     <<Str(<<"t","r","a","c","e">>), TDebug>>,
     <<Str(<<"d","o","n","e">>), TSuccess>>,
     <<Str(<<"g","a","r","b","a","g","e">>), TInfo>>,
     <<Str(<<>>), TInfo>>,
     <<Undefined, TInfo>>,
     <<Str(<<"w","a","r","n","-","e","r","r","o","r">>), TError>>}

\* C12: a record read from the log file whose line carries one of the listed
\* kinds (err, ERROR, warning, WARN, trace, done, garbage, the empty string,
\* none, and a string holding both warn and error) is stored with the
\* canonical kind listed for it.
C12_FileKindNormalized ==
    \A i \in DOMAIN logs :
        origins[i].src = "file" =>
            \A pair \in ListedKinds :
                KindOfLine(TheLine) = pair[1] => Prop(logs[i], "type") = pair[2]

\* C13: a record posted to the RuntimeServer is stored with the kind that
\* LogWatcher.normalizeType gives its type string, info when it has none.
C13_SameClassification ==
    \A i \in DOMAIN logs :
        origins[i].src = "http" =>
            LET type == JsonProp(SourceBody(TheLine), "type")
            IN  Prop(logs[i], "type") =
                    IF type = Undefined THEN TInfo ELSE NormalizeType(type.s)

----------------------------------------------------------------------------
(* Source records *)

\* the source record an entry was made from: the line of the file, the body
\* posted to /log, or the element of the logs posted to /logs
SourceRecord(o) ==
    IF o.src = "file"
    THEN LinePool[(CHOOSE part \in Range(file.content) : part.id = o.id).k]
    ELSE LET r == CHOOSE r \in Range(responses) : r.req = o.req
         IN  IF r.path = "/log" THEN r.body ELSE JsonProp(r.body, "logs").a[o.idx]

\* the source record has a message or a msg
UsableMessage(record) ==
    /\ record # BadJson
    /\ record # Null
    /\ Truthy(JsonProp(record, "message")) \/ Truthy(JsonProp(record, "msg"))

\* C14: no entry of the store was made from a source record (a line of the
\* file, a body posted to /log, an element posted to /logs) that has neither
\* a message nor a msg.
C14_MessageRequired ==
    \A i \in DOMAIN logs : UsableMessage(SourceRecord(origins[i]))

\* a POST /logs whose logs is a list with an element that is null or has
\* neither message nor msg
HasOffending(r) ==
    /\ r.path = "/logs"
    /\ r.body # BadJson /\ r.body # Null
    /\ JsonProp(r.body, "logs").t = "array"
    /\ \E j \in DOMAIN JsonProp(r.body, "logs").a :
          ~UsableMessage(JsonProp(r.body, "logs").a[j])

\* C15: a POST /logs whose list has an offending element (null, or without
\* message and msg) is answered 400, and exactly the other elements of the
\* list, those before it and those after it, are handed to the store.
C15_OnlyOffendingDropped ==
    [][Answered /\ HasOffending(Answer) =>
          LET list  == JsonProp(Answer.body, "logs").a
              valid == {j \in DOMAIN list : UsableMessage(list[j])}
          IN  /\ Answer.status = 400
              /\ Len(Appended) = Cardinality(valid)
              /\ {Appended[p].idx : p \in DOMAIN Appended} = valid]_vars

----------------------------------------------------------------------------
(* Tools *)

\* the last call was get_runtime_logs with a limit and nothing else
RuntimeOnlyCall ==
    /\ "call" \in DOMAIN filter
    /\ filter.call = "get_runtime_logs"
    /\ filter.args.tag = Undefined
    /\ filter.args.types = Undefined
    /\ filter.args.search = Undefined
    /\ filter.args.limit # Undefined

\* the entries of the store whose issuer is none of webpack, repack, watcher
RuntimeOnly == SelectSeq(logs, LAMBDA log : Prop(log, "issuer") \notin BuildIssuers)

\* C16: get_runtime_logs called with no tag, types or search and a limit of at
\* least the number of runtime entries returns exactly the entries of the
\* store whose issuer is none of webpack, repack and watcher, whatever the
\* store holds and whatever its capacity.
C16_RuntimeOnly ==
    RuntimeOnlyCall /\ filter.args.limit.n >= Len(RuntimeOnly) =>
        result = Returned(RuntimeOnly)

----------------------------------------------------------------------------
(* Arrival order *)

\* C17: the store holds its entries in the order add was called with them,
\* whatever their timestamps: it is the tail of the list of the entries added
\* since the last clear, and lastTimestamp is the timestamp of the entry
\* added last, null when nothing has been added.
C17_ArrivalOrder ==
    /\ logs = LastN(added, Len(logs))
    /\ LastTimestamp(logs) =
          IF added = <<>> THEN Null ELSE Prop(added[Len(added)], "timestamp")

\* the entry added last has an earlier timestamp than the one before it, and
\* stands at the tail
C17_Witness ==
    /\ Len(logs) >= 2
    /\ logs[Len(logs)] = added[Len(added)]
    /\ LET later   == NewDate(Prop(logs[Len(logs) - 1], "timestamp"))
           earlier == NewDate(Prop(logs[Len(logs)], "timestamp"))
       IN  later.valid /\ earlier.valid /\ earlier.ms < later.ms
    /\ LastTimestamp(logs) = Prop(added[Len(added)], "timestamp")

----------------------------------------------------------------------------
(* Timestamps *)

\* the timestamp a source record carries: timestamp, or time for a line of
\* the file; Undefined for none
SuppliedTimestamp(o) ==
    IF o.src = "file"
    THEN Coalesce(JsonProp(SourceRecord(o), "timestamp"), JsonProp(SourceRecord(o), "time"))
    ELSE JsonProp(SourceRecord(o), "timestamp")

\* C18: every entry of the store made from a line of the file or from a
\* record posted to /log or /logs has the timestamp its source record
\* carries, and the time of its ingestion only when the source carries none.
C18_ProducerTimestamp ==
    \A i \in DOMAIN logs :
        IF SuppliedTimestamp(origins[i]) = Undefined
        THEN Prop(logs[i], "timestamp") \in NowPool
        ELSE Prop(logs[i], "timestamp") = SuppliedTimestamp(origins[i])

----------------------------------------------------------------------------
(* clear_logs and getErrors *)

\* a step of the tool clear_logs
ClearLogsStep == "call" \in DOMAIN filter' /\ filter'.call = "clear_logs"

\* C19: clear_logs reports the number of entries the store held just before,
\* and leaves it empty: count is 0, lastTimestamp is null, get returns the
\* empty list for every filter, and countByType is 0 for every kind.
C19_ClearLogs ==
    [][ClearLogsStep =>
          /\ result' = Returned(Num(Len(logs)))
          /\ Count(logs') = 0
          /\ LastTimestamp(logs') = Null
          /\ \A f \in FilterPool : LogStoreGet(logs', f) = Returned(<<>>)
          /\ \A type \in LogType : CountByType(logs', type) = 0]_vars

\* clear_logs was called on a store of three entries and reported three
C19_Witness ==
    /\ "call" \in DOMAIN filter /\ filter.call = "clear_logs"
    /\ Len(history) = 3
    /\ result = Returned(Num(3))
    /\ logs = <<>>

\* the limit the last getErrors was called with, by the store's caller or by
\* the tool get_errors
ErrorsLimit ==
    IF filter.call = "getErrors" THEN filter.limit
    ELSE Coalesce(filter.args.limit, Num(DefaultErrorsLimit))

\* the entries of the store of kind error or warn, in the order of the store
ErrorsAndWarnings == SelectSeq(logs, LAMBDA log : Prop(log, "type") \in {TError, TWarn})

\* C20: getErrors(limit) returns what get({types: [error, warn], limit})
\* returns: the entries of kind error or warn, in the order of the store, the
\* last limit of them when a limit above 0 is given, and no other entry.
C20_GetErrors ==
    "call" \in DOMAIN filter /\ filter.call \in {"getErrors", "get_errors"} =>
        /\ result = LogStoreGet(logs, [NoFilter EXCEPT !.types = Arr(<<TError, TWarn>>),
                                                      !.limit = ErrorsLimit])
        /\ result = Returned(IF Truthy(ErrorsLimit)
                             THEN LastN(ErrorsAndWarnings, ErrorsLimit.n)
                             ELSE ErrorsAndWarnings)

\* getErrors(1) on a store with an error, a warning and an entry of another
\* kind returned the later of the two
C20_Witness ==
    /\ "call" \in DOMAIN filter /\ filter.call = "getErrors"
    /\ filter.limit = Num(1)
    /\ Len(ErrorsAndWarnings) = 2
    /\ Len(logs) = 3
    /\ result = Returned(<<ErrorsAndWarnings[2]>>)

----------------------------------------------------------------------------
(* From the log file to the tools *)

\* the lines {"message":"build ok","level":"done"} of the file
BuildOkLines ==
    {file.content[j].id : j \in {j \in DOMAIN file.content : file.content[j].k = BuildOk}}

\* the entries of the store made from the line id
EntriesOf(id) ==
    {logs[i] : i \in {i \in DOMAIN logs : origins[i].src = "file" /\ origins[i].id = id}}

\* C21: with the LogWatcher running and the store below its capacity, every
\* line {"message":"build ok","level":"done"} appended to the file (one at a
\* time) is, once the read cycle it set off is over, in the store exactly once
\* (the count has grown by one for each), with the kind success, among what
\* get_build_logs returns for a search of its message, and not among what
\* get_errors returns; and the read cycles do get over.
C21_FileToTools ==
    /\ [](Quiescent =>
            /\ Len(logs) = Cardinality(atStart) + Cardinality(BuildOkLines)
            /\ \A id \in BuildOkLines :
                  /\ Times(id, origins) = 1
                  /\ \A e \in EntriesOf(id) :
                        /\ Prop(e, "type") = TSuccess
                        /\ e \in Range(GetBuildLogs(logs,
                                 [NoFilter EXCEPT !.search = Str(<<"B","u","i","l","d">>)]).v)
                        /\ e \notin Range(LogStoreGetErrors(logs, Num(DefaultErrorsLimit)).v))
    /\ (~Quiescent ~> Quiescent)

\* two such lines were appended and read, and get_build_logs, asked for
\* "Build", returned the two entries made from them
C21_Witness ==
    /\ Quiescent
    /\ Cardinality(BuildOkLines) = 2
    /\ "call" \in DOMAIN filter /\ filter.call = "get_build_logs"
    /\ filter.args.search # Undefined
    /\ result.ok /\ Len(result.v) = 2
    /\ \A id \in BuildOkLines : EntriesOf(id) \subseteq Range(result.v)
    /\ \A id \in BuildOkLines : EntriesOf(id) # {}

----------------------------------------------------------------------------
(* From a POST /log to get_runtime_logs *)

\* the entries of the store with this issuer
WithIssuer(tag) == {i \in DOMAIN logs : Prop(logs[i], "issuer") = tag}

\* entry i of the store was made from a POST /log of
\* {"type":"error","message":"m","tag":tag}
PostedTagged(i, tag) ==
    /\ origins[i].src = "http"
    /\ \E k \in DOMAIN responses :
          /\ responses[k].req = origins[i].req
          /\ responses[k].path = "/log"
          /\ responses[k].body = TaggedError(tag)

\* get_runtime_logs({tag}) returns the one entry of this issuer, an error
\* with the message m
ReturnsThePosted(tag) ==
    \A i \in WithIssuer(tag) :
        /\ GetRuntimeLogs(logs, TagArgs(tag)) = Returned(<<logs[i]>>)
        /\ Prop(logs[i], "type") = TError
        /\ Prop(logs[i], "issuer") = tag
        /\ Prop(logs[i], "message") = Str(<<"m">>)

OnlyPosted(tag) ==
    /\ Cardinality(WithIssuer(tag)) = 1
    /\ \A i \in WithIssuer(tag) : PostedTagged(i, tag)

\* C22: after one POST /log of {type: error, message: m, tag: T} into a store
\* with no other record of issuer T, get_runtime_logs({tag: T}) returns
\* exactly one record, of kind error, issuer T and message m.
C22_PostedThenQueried ==
    \A tag \in TagPool : OnlyPosted(tag) => ReturnsThePosted(tag)

\* C22 as the code has it: the same, for a tag T that is not the empty string
\* and not one of webpack, repack and watcher.
C22_PostedThenQueriedRuntimeTag ==
    \A tag \in TagPool :
        (OnlyPosted(tag) /\ tag # Str(<<>>) /\ tag \notin BuildIssuers)
            => ReturnsThePosted(tag)

\* the error tagged T was posted into a store that held an entry of another
\* runtime issuer, and get_runtime_logs({tag: T}) was called and returned it
C22_Witness ==
    /\ OnlyPosted(Str(<<"T">>))
    /\ Len(logs) >= 2
    /\ \E i \in DOMAIN logs : Prop(logs[i], "issuer") = Str(<<"a","p","p">>)
    /\ "call" \in DOMAIN filter /\ filter.call = "get_runtime_logs"
    /\ filter.args = TagArgs(Str(<<"T">>))
    /\ result.ok /\ Len(result.v) = 1
    /\ Prop(result.v[1], "message") = Str(<<"m">>)

----------------------------------------------------------------------------
(* since *)

\* get was called with a since that is a date, and nothing else
OnlySince ==
    /\ result # NoResult
    /\ filter.types = Undefined /\ filter.issuer = Undefined
    /\ filter.search = Undefined /\ filter.limit = Undefined
    /\ IsString(filter.since) /\ NewDate(filter.since).valid

\* the timestamp of the record is no date
Malformed(log) == ~NewDate(Prop(log, "timestamp")).valid

\* the record is of the instant since or later
NotBefore(log) ==
    /\ ~Malformed(log)
    /\ NewDate(Prop(log, "timestamp")).ms >= NewDate(filter.since).ms

\* C23: get({since}) returns exactly the records whose timestamp is the
\* instant since or later, in the order of the store; a record whose
\* timestamp is malformed is not returned, and the store without such records
\* gives the same answer.
C23_Since ==
    OnlySince =>
        /\ result = Returned(SelectSeq(logs, NotBefore))
        /\ \A i \in DOMAIN result.v : ~Malformed(result.v[i])
        /\ result = LogStoreGet(SelectSeq(logs, LAMBDA log : ~Malformed(log)), filter)

\* the store holds a malformed record between two records of since or later,
\* one of them of the very instant since (written another way), and the two
\* are returned
C23_Witness ==
    /\ OnlySince
    /\ Len(logs) = 3 /\ Malformed(logs[2])
    /\ Prop(logs[1], "timestamp") # filter.since
    /\ NewDate(Prop(logs[1], "timestamp")).ms = NewDate(filter.since).ms
    /\ result.ok /\ Len(result.v) = 2

----------------------------------------------------------------------------
(* The client logger *)

RECURSIVE Flatten(_)
Flatten(batches) ==
    IF batches = <<>> THEN <<>> ELSE Head(batches) \o Flatten(Tail(batches))

\* the batches posted to /logs, in the order of the posts
Batches ==
    LET posts == SelectSeq(fetches, LAMBDA f : f.path = "/logs")
    IN  [i \in DOMAIN posts |-> posts[i].logs]

\* C24: when logBuffer is not empty a flush timeout is pending; the batches
\* posted to /logs, one after the other, followed by what is still in
\* logBuffer, are the entries ever buffered, each once and in the order of the
\* calls that made them; no fetch that failed raised anything in the
\* application; and what is buffered does get posted.
C24_Batching ==
    /\ [](logBuffer # <<>> => (flushTimer # 0 /\ flushTimer \in timers))
    /\ [](Flatten(Batches) \o logBuffer = buffered)
    /\ [](\A i \in DOMAIN buffered : buffered[i].n = i)
    /\ [](\A i \in DOMAIN fetches : ~fetches[i].raised)
    /\ (logBuffer # <<>> ~> logBuffer = <<>>)

\* three entries went out in two batches, the first of two entries, and the
\* fetch of a batch failed
C24_Witness ==
    /\ Len(Batches) = 2 /\ Len(Batches[1]) = 2 /\ Len(Batches[2]) = 1
    /\ logBuffer = <<>>
    /\ \E i \in DOMAIN fetches : fetches[i].path = "/logs" /\ fetches[i].outcome = "rejected"

----------------------------------------------------------------------------
(* The capture of console *)

\* C25: a call of console.log, info, warn, error or debug made while the
\* capture is enabled calls the original method exactly once, whether or not
\* the patterns keep its entry; an enableConsoleCapture called a second time
\* changes nothing, and neither does one with other options once the capture
\* is enabled; and a disableConsoleCapture after an enableConsoleCapture
\* leaves console with its original methods.
C25_ConsoleCapture ==
    /\ consoleCall.capturing => consoleCall.originals = 1
    /\ \A first, second \in CaptureOptionsPool :
          LET once == EnableConsoleCaptureOn(Capture, first)
          IN  /\ EnableConsoleCaptureOn(once, first) = once
              /\ once.enabled => EnableConsoleCaptureOn(once, second) = once
    /\ \A options \in CaptureOptionsPool :
          DisableConsoleCaptureOn(EnableConsoleCaptureOn(Capture, options)).console
              = [m \in Methods |-> Original(m)]

\* console.debug was called under a capture whose patterns dropped its
\* entry, and the capture has been disabled since
C25_Witness ==
    /\ consoleCall.method = "debug"
    /\ consoleCall.capturing /\ ~consoleCall.kept
    /\ consoleCall.originals = 1
    /\ ~consoleCapureEnabled
    /\ console = [m \in Methods |-> Original(m)]
    /\ logBuffer # <<>>

----------------------------------------------------------------------------
(* start() against stop() *)

\* C26: once a stop() has resolved and no start() has been called since, the
\* LogWatcher is stopped: watching is false, no FSWatcher of its making is
\* open, so that no notification reaches a handler any more.
C26_StoppedAfterStop ==
    calls.stoppedAt = calls.start => WatcherStopped

----------------------------------------------------------------------------
(* Overlapping read cycles *)

\* the lines ever written to the file that were handed to the store
Ingested == {history[i].id : i \in {i \in DOMAIN history : history[i].src = "file"}}

\* C27: whatever the overlap of the read cycles set off by start() and by the
\* change, add and unlink notifications, no line of the file is handed to the
\* store more than once.
C27_NoDuplicate ==
    \A id \in Ingested : Times(id, history) <= 1

----------------------------------------------------------------------------
(* Lines written in two halves *)

\* C28: with a writer that only appends, once the read cycles are over every
\* complete line of the file that parseLine makes an entry of has been handed
\* to the store, also a line of which a read cycle saw the first half only.
C28_NoLostLine ==
    Quiescent => Records(file.content) \subseteq Ingested

----------------------------------------------------------------------------
(* Read cycles that fail *)

\* readNewContent call i ends in its catch
EndsInCatch(i) ==
    /\ cycles[i].pc \in {"statDone", "readDone"}
    /\ cycles[i].err
    /\ cycles'[i] # cycles[i]

\* a change handler runs and readNewContent finds no file
FindsNoFile ==
    /\ ~file.exists
    /\ \E s \in DOMAIN subs :
          /\ ~subs[s].closed /\ subs[s].queue # <<>> /\ Head(subs[s].queue) = "change"
          /\ subs'[s].queue = Tail(subs[s].queue)

\* C29: a read cycle whose stat or readFile fails, or that finds no file,
\* hands nothing to the store, and the offset is what it was when the cycle
\* began: the cycle has not changed it before failing and does not change it
\* on failing.
C29_FailedCycleKeepsOffset ==
    [][ /\ \A i \in DOMAIN cycles :
              EndsInCatch(i) =>
                  /\ UNCHANGED <<lastPosition, logs, added, history>>
                  /\ ~cycles[i].reset
        /\ FindsNoFile => UNCHANGED <<lastPosition, logs, added, history, cycles>>
      ]_vars

\* C29 as the code has it: the failing cycle hands nothing to the store and
\* on failing leaves the offset alone; it may have set the offset to 0
\* before, when its stat found the file shorter than the offset.
C29_FailedCycleAppendsNothing ==
    [][ /\ \A i \in DOMAIN cycles :
              EndsInCatch(i) => UNCHANGED <<lastPosition, logs, added, history>>
        /\ FindsNoFile => UNCHANGED <<lastPosition, logs, added, history, cycles>>
      ]_vars

\* the readFile of a cycle has failed, the file having been deleted after
\* the cycle's stat, with lines in the store and the offset past them
C29_Witness ==
    /\ \E i \in DOMAIN cycles :
          cycles[i].pc = "readDone" /\ cycles[i].err /\ ~cycles[i].reset
    /\ lastPosition > 0
    /\ logs # <<>>

----------------------------------------------------------------------------
(* The file deleted and created anew *)

\* the file start() read has been deleted and there is a new one
Recreated == file.exists /\ file.content # <<>> /\ file.content[1].id # 1

\* C30: the file having been deleted and created anew, with less or with
\* more in it than the offset was, once the read cycles are over every line
\* of the new file that parseLine makes an entry of has been handed to the
\* store exactly once.
C30_RecreatedReadOnce ==
    (Quiescent /\ Recreated) =>
        \A id \in Records(file.content) : Times(id, history) = 1

----------------------------------------------------------------------------
(* One producer step, one block of the store *)

\* the records of a block come from one producer step: all from the file, or
\* all from one request
OneProducer(block) ==
    \/ \A i \in DOMAIN block : block[i].src = "file"
    \/ \E req \in 1..MaxPosts :
          \A i \in DOMAIN block : block[i].src = "http" /\ block[i].req = req

\* the records of list between two records of one request are of that request
RequestsContiguous(list) ==
    \A i, j \in DOMAIN list :
        (i < j /\ list[i].src = "http" /\ list[j].src = "http" /\ list[i].req = list[j].req) =>
            \A k \in i..j : list[k].src = "http" /\ list[k].req = list[i].req

\* the records of list between two records read from the file are from the file
FileContiguous(list) ==
    \A i, j \in DOMAIN list :
        (i < j /\ list[i].src = "file" /\ list[j].src = "file") =>
            \A k \in i..j : list[k].src = "file"

\* C31: the records one 'end' handler of POST /logs hands to the store, and
\* those one read cycle hands to it, arrive as one block: every step that
\* hands records to the store hands those of one producer step, appends them
\* to what the store holds (no clear in the same step), and in the order of
\* arrival the records of one request, and those of the one read cycle, lie
\* next to each other.
C31_ProducerStepAtomic ==
    /\ [](RequestsContiguous(history) /\ FileContiguous(history))
    /\ [][ history' # history =>
             LET block == SubSeq(history', Len(history) + 1, Len(history'))
             IN  /\ history' = history \o block
                 /\ OneProducer(block)
                 /\ origins' = origins \o block
                 /\ Len(logs') = Len(logs) + Len(block)
                 /\ Len(added') = Len(added) + Len(block)
         ]_vars

\* a read cycle of two records and a batch of two records have arrived, one
\* after the other, and a clear has taken effect since the first record
C31_Witness ==
    /\ Len(history) >= 4
    /\ \E i \in 1..(Len(history) - 1) :
          /\ history[i].src = "file" /\ history[i + 1].src = "file"
    /\ \E i \in 1..(Len(history) - 1) :
          /\ history[i].src = "http" /\ history[i + 1].src = "http"
          /\ history[i].req = history[i + 1].req
    /\ Len(added) < Len(history)
    /\ Len(added) > 0

----------------------------------------------------------------------------
(* The order of the records read from the file *)

\* the lines of the file that have been handed to the store, in the order
\* they were handed over
FileArrivals == SelectSeq(history, LAMBDA o : o.src = "file")

\* C32: whatever read cycles ran, and however they overlapped, a record made
\* of a line of the file is never handed to the store after a record made of
\* a line further down the file.
C32_FileOrder ==
    \A i, j \in DOMAIN FileArrivals :
        i < j => FileArrivals[i].id <= FileArrivals[j].id

----------------------------------------------------------------------------
(* Queries on records whose fields are no strings *)

\* C33: whatever the file reader and the HTTP handlers have stored, a record
\* whose message, issuer or request is a number included, and whatever the
\* filter, store.get, get_build_logs and get_runtime_logs return a result:
\* none of them throws.
C33_QueriesReturn == result # NoResult => result.ok

----------------------------------------------------------------------------
(* What get_status reports *)

\* the last call was get_status
StatusReported == result # NoResult /\ filter = [call |-> "get_status"]

\* C34: whatever the store holds and whatever its capacity, the status that
\* get_status reports has logCount equal to the number of stored entries and
\* to buildLogCount + runtimeLogCount, errorCount and warningCount equal to
\* the numbers of stored entries of type error and warn, and
\* runtimeServerPort equal to the server's activePort.
C34_StatusConsistent ==
    StatusReported =>
        /\ result.v.logCount = Len(logs)
        /\ result.v.logCount = result.v.buildLogCount + result.v.runtimeLogCount
        /\ result.v.errorCount = Len(SelectSeq(logs, LAMBDA log : log.type = TError))
        /\ result.v.warningCount = Len(SelectSeq(logs, LAMBDA log : log.type = TWarn))
        /\ result.v.runtimeServerPort = port

----------------------------------------------------------------------------
(* The limit of get_runtime_logs *)

\* the last call was get_runtime_logs, on a store it scans whole, and it
\* returned
RuntimeLogsReturned ==
    /\ result # NoResult
    /\ filter # NoFilter
    /\ filter.call = "get_runtime_logs"
    /\ result.ok
    /\ Len(logs) <= RuntimeScanLimit

\* the runtime entries of the store that match the tag, types and search of
\* the call, in arrival order
RuntimeMatches ==
    LET args == filter.args
    IN  SelectSeq(RuntimeOnly, LAMBDA log :
            /\ Truthy(args.tag) => Prop(log, "issuer") = args.tag
            /\ Truthy(args.types) =>
                  \E i \in DOMAIN args.types.a : args.types.a[i] = Prop(log, "type")
            /\ Truthy(args.search) =>
                  Includes(ToLowerCase(Prop(log, "message").s), ToLowerCase(args.search.s)))

\* C35: get_runtime_logs with limit L, 50 when none is given, returns the L
\* entries that arrived last among the runtime entries matching tag, types
\* and search, in arrival order.
C35_RuntimeLimitMostRecent ==
    RuntimeLogsReturned =>
        result.v = LastN(RuntimeMatches,
                         Min(Coalesce(filter.args.limit, Num(DefaultRuntimeLimit)).n,
                             Len(RuntimeMatches)))

----------------------------------------------------------------------------
(* start() of the RuntimeServer settles *)

\* start() has resolved, or it has rejected
Settled == server \in {"listening", "failed"}

\* no port from this.port up can be bound
NoPortLeft == port >= 1 /\ \A p \in port..MaxPort : p \in occupied

\* C36: a start() that is binding comes to resolve or to reject, after at
\* most one listen per port of the range; it resolves only bound to a port
\* that nothing else holds; when no port from this.port up can be bound it
\* rejects; and it rejects only past the last port or on an error other than
\* EADDRINUSE, which leaves this.port as it was.
C36_StartSettles ==
    /\ (server = "binding") ~> Settled
    /\ (server = "binding" /\ NoPortLeft) ~> (server = "failed")
    /\ [](port <= MaxPort + 1)
    /\ [](server = "listening" => bound \in FreePorts)
    /\ [][ (server = "binding" /\ server' = "failed") =>
              (port' > MaxPort \/ port' = port) ]_vars
    /\ [][ port' # port => (port' = port + 1 /\ port \notin FreePorts) ]_vars

\* start() has rejected after the listen on every port of the range, from
\* the first port on, ended with EADDRINUSE
C36_Witness ==
    /\ server = "failed"
    /\ configPort = 1
    /\ port = MaxPort + 1

\* start() has resolved after two listens that ended with EADDRINUSE
C36_WitnessResolved ==
    /\ server = "listening"
    /\ bound = configPort + 2

----------------------------------------------------------------------------
(* Where the entries of a logger are sent *)

\* the entries of a logger: createLogger("T", ...)
OfLogger(entry) == entry.tag = Str(<<"T">>)

\* C37: every fetch that carries an entry logged through a logger goes to the
\* serverUrl that logger was made with, whatever other loggers and the
\* capture of console pushed into logBuffer and whichever of them set the
\* timeout or called flush().
C37_SentToOwnServer ==
    \A i \in DOMAIN fetches :
        IF fetches[i].path = "/log"
        THEN fetches[i].url = fetches[i].of
        ELSE \A j \in DOMAIN fetches[i].logs :
                 OfLogger(fetches[i].logs[j]) =>
                     fetches[i].url = urls.entry[fetches[i].logs[j].n]

----------------------------------------------------------------------------
(* One call of a logger, one entry *)

\* the loggers that are enabled and batched: their entries go to logBuffer
BufferingLoggers == {lg \in LoggerPool : lg.enabled /\ lg.batched}

\* C38: a call of a method of an enabled, batched logger puts one entry into
\* logBuffer, no more and no fewer, whether or not the capture of console is
\* on and whether or not the logger passes its entries through to console.
C38_OneEntryPerCall ==
    [][ SendLogOf(BufferingLoggers, {GlobalServerUrl}) =>
            /\ Len(buffered') = Len(buffered) + 1
            /\ Len(logBuffer') = Len(logBuffer) + 1 ]_vars

----------------------------------------------------------------------------
(* clear_logs and the LogWatcher *)

\* the running LogWatcher, a writer that appends whole lines, and clear_logs
\* called at any moment of the read cycles
ClearNext ==
    \/ WriteLine
    \/ Deliver
    \/ StatSys \/ StatResume \/ ReadSys \/ ReadResume
    \/ ClearLogsTool

SpecClear == RecreateSpecInit /\ [][ClearNext]_vars

\* what was handed to the store up to the last clear(), and since
BeforeClear == SubSeq(history, 1, Len(history) - Len(added))
SinceClear == SubSeq(history, Len(history) - Len(added) + 1, Len(history))

\* the lines of the file among these
FileLines(list) == {list[i].id : i \in {i \in DOMAIN list : list[i].src = "file"}}

\* clear_logs leaves the LogWatcher and the file as they are
ClearLeavesReader ==
    [][ClearLogsTool => UNCHANGED <<lastPosition, watching, watcher, subs, cycles,
                                    stopping, calls, file>>]_vars

\* C39: clear_logs leaves the offset and the watch state of the LogWatcher as
\* they are, so no line of the file that was handed to the store before a
\* clear() is handed to it again after that clear(): what is cleared stays
\* cleared, and a read cycle that finds nothing new in the file adds nothing.
C39_ClearedNotReingested ==
    FileLines(BeforeClear) \cap FileLines(SinceClear) = {}

====
